---- MODULE Spec2Model ----
(***************************************************************************)
(* The remote interface of the TEN engine                                  *)
(* (core/src/ten_runtime/engine/internal/remote_interface.c).              *)
(*                                                                         *)
(* One engine is modelled.  Every callback of the engine thread is one     *)
(* atomic action: the engine is single-threaded and the protocol layer     *)
(* posts its callbacks onto the engine thread.                             *)
(*                                                                         *)
(* A URI is a sequence of byte values ("A" is <<65>>), so that the         *)
(* lexicographic comparison of the tiebreak is computed, not assumed.      *)
(***************************************************************************)
EXTENDS Integers, Sequences, FiniteSets, TLC

\* ---------------------------------------------------------------- bounds

\* How many per-hop start_graph commands one behaviour may hand to
\* ten_engine_connect_to_graph_remote.
MaxDials == 2

\* How many inbound connections one behaviour may link to the engine.
MaxInbound == 1

\* How many per-hop start_graph commands a behaviour of MsgSpec may see.
MaxMsgDials == 1

\* ------------------------------------------------------------------ URIs

UriA == <<65>>
UriB == <<66>>
UriC == <<67>>

\* The URIs the app hosting the engine may have.
AppUris == {UriA, UriB, UriC}

\* The URIs of the apps that dial us.
PeerUris == {UriA, UriB}

\* The URIs of the peers that are dialed: one peer, smaller than, equal to or
\* larger than the app's own uri.
DialUris == {UriB}

\* URIs a message can be addressed to.
DestUris == {UriB}

NULL == 0

\* The identities of the remotes: every call of ten_remote_create_for_engine
\* gives a new one.
MaxRemotes == MaxDials + MaxInbound

NoUri == <<>>

\* ----------------------------------------------------------------- state

VARIABLES
    app_uri,                     \* ten_app_get_uri(self->app)
    long_running_mode,           \* self->long_running_mode
    is_closing,                  \* self->is_closing
    has_uncompleted_async_task,  \* self->has_uncompleted_async_task
    remotes,                     \* self->remotes: the set of remotes in the hashtable
    weak_remotes,                \* self->weak_remotes: a list of remotes
    rem,                         \* every ten_remote_t ever created, by identity
    inbound,                     \* how many inbound connections were linked
    graph,                       \* the uri of every per-hop start_graph, in the order of
                                 \* the calls of ten_engine_connect_to_graph_remote
    dialed,                      \* per hop: what connect_to_graph_remote returned
    pending_creates,             \* hops whose protocol creation is in flight (ctx alive)
    closing_protocols,           \* hops whose protocol is closing (is_closing branch)
    cb_count,                    \* per hop: how often the creation callback ran
    protocol_ref,                \* per hop: protocol->ref of the protocol of its dial
    hop_result,                  \* per hop: the results given to its per-hop start_graph
    hop_sent,                    \* per hop: its per-hop start_graph was sent to the peer
    original_result,             \* the results given to the original start_graph
    close_async_scheduled,       \* ten_engine_close_async was called and has not run
    finalized,                   \* the engine passed its close gate
    panic,                       \* why the process is followed no further: the
                                 \* TEN_ASSERT that failed, or the freed remote
                                 \* left in self->remotes ("none": it runs)
    last,                        \* what the most recent handler did
    \* tests/ten_runtime/smoke/return/return_2.cc
    hello_world,                 \* where the client's hello_world command is
    dest_state,                  \* per destination extension: its copy of the command
    received_cmd_results_cnt,    \* test_extension_1::received_cmd_results_cnt (size_t)
    handler_calls,               \* how often the result handler of extension 1 ran
    expect_failed,               \* an EXPECT_EQ of the result handler failed
    hello_results,               \* the results sent to the client for hello_world
    hello_checked,               \* the client took its result: "no", "pass", "fail"
    \* tests/ten_runtime/smoke/start_graph/start_graph_with_msg_conversion_2.cc
    on_start_called,             \* test_predefined_graph::on_start has run
    start_graph_cmd,             \* the start_graph command of on_start
    stop_graph_cmd,              \* the stop_graph command sent by its result handler
    start_graph_cmd_is_done,     \* test_predefined_graph::start_graph_cmd_is_done
    test_cmd,                    \* test_predefined_graph::test_cmd != nullptr
    client_test_cmd,             \* where the client's test command is
    test_results,                \* the results sent to the client for test
    test_checked                 \* the client took its result: "no", "pass", "fail"

vars == <<app_uri, long_running_mode, is_closing, has_uncompleted_async_task,
          remotes, weak_remotes, rem, inbound, dialed,
          pending_creates, closing_protocols, cb_count, protocol_ref, hop_result,
          hop_sent,
          graph, original_result, close_async_scheduled, finalized, panic, last, hello_world,
          dest_state, received_cmd_results_cnt, handler_calls, expect_failed,
          hello_results, hello_checked, on_start_called, start_graph_cmd,
          stop_graph_cmd, start_graph_cmd_is_done, test_cmd, client_test_cmd,
          test_results, test_checked>>

\* The state of the engine.
engine == <<app_uri, long_running_mode, is_closing, has_uncompleted_async_task,
            remotes, weak_remotes, rem, inbound, dialed,
            pending_creates, closing_protocols, cb_count, protocol_ref, hop_result,
            hop_sent,
            graph, original_result, close_async_scheduled, finalized, panic, last>>

\* The state of the smoke test return_2.
return_2 == <<hello_world, dest_state, received_cmd_results_cnt, handler_calls,
              expect_failed, hello_results, hello_checked>>

\* The state of the smoke test start_graph_with_msg_conversion_2.
start_graph_2 == <<on_start_called, start_graph_cmd, stop_graph_cmd,
                   start_graph_cmd_is_done, test_cmd, client_test_cmd,
                   test_results, test_checked>>

\* The state of the smoke tests.
smoke == <<return_2, start_graph_2>>

\* The fields of the engine that never change after construction.
config == <<app_uri, long_running_mode, graph>>

\* ---------------------------------------------------------- pure helpers

\* strcmp(3) on two byte strings: negative, zero or positive.
RECURSIVE strcmp(_, _)
strcmp(a, b) ==
    IF a = <<>> /\ b = <<>> THEN 0
    ELSE IF a = <<>> THEN 0 - Head(b)
    ELSE IF b = <<>> THEN Head(a)
    ELSE IF Head(a) # Head(b) THEN Head(a) - Head(b)
    ELSE strcmp(Tail(a), Tail(b))

\* ten_c_string_is_equal_or_smaller(a, b): a <= b.
ten_c_string_is_equal_or_smaller(a, b) == strcmp(a, b) <= 0

\* The elements of a list.
Range(s) == {s[i] : i \in 1..Len(s)}

\* ten_list_remove_ptr: the list without the first node that holds ptr.
RECURSIVE ten_list_remove_ptr(_, _)
ten_list_remove_ptr(list, ptr) ==
    IF list = <<>> THEN <<>>
    ELSE IF Head(list) = ptr THEN Tail(list)
    ELSE <<Head(list)>> \o ten_list_remove_ptr(Tail(list), ptr)

\* ten_remote_is_uri_equal_to
ten_remote_is_uri_equal_to(r, uri) == rem[r].uri = uri

\* ten_list_find_ptr_cnt_custom(&weak_remotes, uri, ten_remote_is_uri_equal_to)
ten_engine_weak_remotes_cnt_in_specified_uri(uri) ==
    Cardinality({i \in 1..Len(weak_remotes) :
                    ten_remote_is_uri_equal_to(weak_remotes[i], uri)})

\* The first weak remote whose uri is `uri`, or NULL.
ten_engine_find_weak_remote(uri) ==
    LET hits == {i \in 1..Len(weak_remotes) :
                    ten_remote_is_uri_equal_to(weak_remotes[i], uri)}
    IN IF hits = {} THEN NULL
       ELSE weak_remotes[CHOOSE i \in hits : \A j \in hits : i <= j]

\* ten_hashtable_find_string(&self->remotes, uri): what the lookup may return.
\* NULL when no entry is keyed uri, the entry when there is one; of two
\* entries under one key the table returns one, and which one is not decided
\* by this file.
ten_hashtable_find_string(table, uri) ==
    LET hits == {r \in table : rem[r].uri = uri}
    IN IF hits = {} THEN {NULL} ELSE hits

\* A variant that falls back to the weak list.
ten_engine_find_remote_or_weak(uri) ==
    LET hh == ten_hashtable_find_string(remotes, uri)
    IN IF hh # {NULL} THEN hh ELSE {ten_engine_find_weak_remote(uri)}

\* ten_engine_find_remote: strong table only; what it may return.
ten_engine_find_remote(uri) == ten_hashtable_find_string(remotes, uri)

\* A variant that forgets the strong table.
ten_engine_check_remote_is_existed_weak_only(uri) ==
    {ten_engine_find_weak_remote(uri)}

\* ten_engine_check_remote_is_existed: the strong table first, then the weak
\* list; what it may return.
ten_engine_check_remote_is_existed(uri) ==
    LET hh == ten_hashtable_find_string(remotes, uri)
    IN IF hh # {NULL} THEN hh
       ELSE {ten_engine_find_weak_remote(uri)}

\* A variant that compares the two URIs the other way round.
ten_engine_check_remote_is_duplicated_reversed(uri) ==
    \E remote \in ten_engine_check_remote_is_existed(uri) :
       IF remote # NULL
       THEN IF ten_c_string_is_equal_or_smaller(app_uri, uri) THEN TRUE ELSE FALSE
       ELSE FALSE

\* A variant that keeps the channel when the two URIs are equal.
ten_engine_check_remote_is_duplicated_strict(uri) ==
    \E remote \in ten_engine_check_remote_is_existed(uri) :
       IF remote # NULL
       THEN IF strcmp(uri, app_uri) < 0 THEN TRUE ELSE FALSE
       ELSE FALSE

\* The verdict of ten_engine_check_remote_is_duplicated in an app of uri
\* local_uri, given what ten_engine_check_remote_is_existed found for the
\* peer: duplicated when a remote exists and the peer's uri is equal to or
\* smaller than the uri of the app.
channel_is_duplicated(remote, uri, local_uri) ==
    IF remote # NULL
    THEN IF ten_c_string_is_equal_or_smaller(uri, local_uri) THEN TRUE ELSE FALSE
    ELSE FALSE

\* ten_engine_check_remote_is_duplicated: a remote of that uri exists and the
\* peer's uri is equal to or smaller than the uri of this app.
ten_engine_check_remote_is_duplicated(uri) ==
    \E remote \in ten_engine_check_remote_is_existed(uri) :
       channel_is_duplicated(remote, uri, app_uri)

\* ten_engine_check_remote_is_weak: identity lookup in the weak list.
ten_engine_check_remote_is_weak(remote) == remote \in Range(weak_remotes)

\* ------------------------------------------------------ records and logs

\* One call a handler makes to a collaborator (host engine API, remote, protocol).
Call(c, r, status, fmt, arg) ==
    [call |-> c, remote |-> r, status |-> status, fmt |-> fmt, arg |-> arg]

\* What the most recent handler was and did: for which uri, remote and per-hop
\* command (NULL: none).
Did(op, uri, r, hop, ret, is_cmd, calls) ==
    [op |-> op, uri |-> uri, remote |-> r, hop |-> hop, ret |-> ret,
     is_cmd |-> is_cmd, calls |-> calls]

\* A cmd_result: its status code and its detail, a format and its argument.
CmdResult(status, fmt, arg) == [status |-> status, fmt |-> fmt, arg |-> arg]

\* A remote that was not created yet.
NoRemote ==
    [uri |-> NoUri, life |-> "none", closing |-> FALSE, closed |-> FALSE,
     dial |-> "none", cmd |-> FALSE, origin |-> "none", protocol |-> NULL]

\* The identity of the remote that the next ten_remote_create_for_engine makes.
NewRemote == CHOOSE r \in 1..MaxRemotes :
                 /\ rem[r].life = "none"
                 /\ \A q \in 1..MaxRemotes : rem[q].life = "none" => r <= q

\* ten_remote_create_for_engine(uri, engine, connection): `protocol` is the
\* hop whose protocol the connection wraps (NULL for an accepted connection).
ten_remote_create_for_engine(uri, origin, protocol) ==
    [uri |-> uri, life |-> "alive", closing |-> FALSE, closed |-> FALSE,
     dial |-> "none", cmd |-> FALSE, origin |-> origin, protocol |-> protocol]

\* ten_remote_close(remote): the close of its connection starts; the closed
\* callback (ten_engine_on_remote_closed) is delivered later.
ten_remote_close(table, r) == [table EXCEPT ![r].closing = TRUE]

\* ten_remote_destroy(remote): the object is freed; its identity is left, and
\* the protocol it was built on, which has a life of its own.
ten_remote_destroy(table, r) ==
    [table EXCEPT ![r] = [NoRemote EXCEPT !.life = "destroyed",
                                          !.protocol = table[r].protocol]]

\* ten_remote_connect_to(remote, on_connected, cmd, on_error): the dial starts
\* and the command is kept as remote->on_server_connected_cmd.
ten_remote_connect_to(table, r) ==
    [table EXCEPT ![r].dial = "dialing", ![r].cmd = TRUE]

\* ten_engine_return_error_for_cmd_start_graph(engine, cmd, fmt, arg)
ten_engine_return_error_for_cmd_start_graph(results, hop, fmt, arg) ==
    [results EXCEPT ![hop] = Append(@, CmdResult("ERROR", fmt, arg))]

\* ten_engine_return_ok_for_cmd_start_graph(engine, cmd)
ten_engine_return_ok_for_cmd_start_graph(results, hop) ==
    [results EXCEPT ![hop] = Append(@, CmdResult("OK", "", NoUri))]

\* ---------------------------------------------------------- the tables

\* A variant that reports the remote and leaves it on the list.
ten_engine_del_weak_remote_keeps(list, remote) ==
    [list |-> list, success |-> remote \in Range(list)]

\* ten_engine_del_weak_remote: the list without remote, and whether it was there.
ten_engine_del_weak_remote(list, remote) ==
    [list |-> ten_list_remove_ptr(list, remote),
     success |-> remote \in Range(list)]

\* ten_hashtable_add_string(&self->remotes, &remote->hh_in_remote_table, uri,
\* ten_remote_destroy): the entry is in the table afterwards.  The call returns
\* nothing that ten_engine_add_remote looks at.
ten_hashtable_add_string(table, remote) == table \cup {remote}

\* ten_engine_add_remote: no test of what the table holds.
ten_engine_add_remote(table, remote) == ten_hashtable_add_string(table, remote)

\* A variant that pushes the remote to the front and to the back.
ten_engine_add_weak_remote_twice(list, remote, uri) ==
    LET found == \E i \in 1..Len(list) : rem[list[i]].uri = uri
    IN [list |-> <<remote>> \o Append(list, remote), ok |-> ~found]

\* ten_engine_add_weak_remote: asserts that no weak remote has this uri, then
\* pushes the remote to the back of the list.
ten_engine_add_weak_remote(list, remote, uri) ==
    LET found == \E i \in 1..Len(list) : rem[list[i]].uri = uri
    IN [list |-> Append(list, remote), ok |-> ~found]

\* ten_hashtable_del(&self->remotes, hh): the entry is out of the table.
ten_hashtable_del(table, remote) == table \ {remote}

\* ten_engine_on_close: the engine finalizes once nothing blocks its closing.
ten_engine_on_close(table, list, task) ==
    table = {} /\ list = <<>> /\ ~task

\* The engine runs: no assertion has failed and it is not finalized.
Running == panic = "none" /\ ~finalized

\* ---------------------------------------------------- the original command

\* How many results the hops were given.
RECURSIVE results_cnt(_, _)
results_cnt(results, hops) ==
    IF hops = {} THEN 0
    ELSE LET d == CHOOSE e \in hops : TRUE
         IN Len(results[d]) + results_cnt(results, hops \ {d})

\* How many answers the original start_graph is due: one when the result of
\* the last hop arrives, and one for every result that arrives after that.
answers_due(results) ==
    IF \A d \in DOMAIN graph : results[d] # <<>>
    THEN results_cnt(results, DOMAIN graph) - Len(graph) + 1
    ELSE 0

\* The status of the answer: ERROR when a hop failed.
aggregate_status(results) ==
    IF \E d \in DOMAIN graph : \E i \in 1..Len(results[d]) :
           results[d][i].status = "ERROR"
    THEN "ERROR" ELSE "OK"

\* The results of the original start_graph after the hops were given
\* `results`: the orchestrator answers when the result of the last hop arrives.
orchestrator_answers(original, results) ==
    IF Len(original) < answers_due(results)
    THEN Append(original, CmdResult(aggregate_status(results), "", NoUri))
    ELSE original

\* ------------------------------------------------------- the smoke tests

\* The destination extensions of hello_world in the graph of return_2:
\* test_extension_2 and test_extension_3.
Dests == {2, 3}

\* A size_t has 64 bits. Its value is kept as four limbs of 16 bits, the most
\* significant first, so that the arithmetic is modulo 2^64 exactly.
LimbBase == 65536
SizeLimbs == 4

\* static_cast<size_t>(n), for 0 <= n < LimbBase.
size_t(n) == [i \in 1..SizeLimbs |-> IF i = SizeLimbs THEN n ELSE 0]

\* The limbs of v after one is taken from limb i, with borrow; 0 wraps to
\* 2^64 - 1.
RECURSIVE borrow(_, _)
borrow(v, i) ==
    IF i = 0 THEN v
    ELSE IF v[i] > 0 THEN [v EXCEPT ![i] = @ - 1]
    ELSE borrow([v EXCEPT ![i] = LimbBase - 1], i - 1)

\* v-- on a size_t.
size_t_decrement(v) == borrow(v, SizeLimbs)

\* The detail that the result handler of test_extension_1 sets.
DetailExt1 == "return from extension 1"

\* nlohmann::json detail = {{"id", 1}, {"name", "a"}}
DetailTest == [id |-> 1, name |-> "a"]

\* The state of the two smoke tests before their clients send anything.
SmokeInit ==
    /\ hello_world = "unsent"
    /\ dest_state = [d \in Dests |-> "idle"]
    /\ received_cmd_results_cnt = size_t(1)
    /\ handler_calls = 0
    /\ expect_failed = FALSE
    /\ hello_results = <<>>
    /\ hello_checked = "no"
    /\ on_start_called = FALSE
    /\ start_graph_cmd = "none"
    /\ stop_graph_cmd = "none"
    /\ start_graph_cmd_is_done = FALSE
    /\ test_cmd = FALSE
    /\ client_test_cmd = "unsent"
    /\ test_results = <<>>
    /\ test_checked = "no"

\* ------------------------------------------------------------------ Init

\* The sequences of per-hop commands one behaviour may see: a peer can be
\* named by more than one of them.
Graphs == UNION {[1..n -> DialUris] : n \in 0..MaxDials}

Init ==
    /\ app_uri \in AppUris
    /\ long_running_mode \in BOOLEAN
    /\ is_closing = FALSE
    /\ has_uncompleted_async_task = FALSE
    /\ remotes = {}
    /\ weak_remotes = <<>>
    /\ rem = [r \in 1..MaxRemotes |-> NoRemote]
    /\ inbound = 0
    /\ graph \in Graphs
    /\ dialed = [d \in DOMAIN graph |-> "no"]
    /\ pending_creates = {}
    /\ closing_protocols = {}
    /\ cb_count = [d \in DOMAIN graph |-> 0]
    /\ protocol_ref = [d \in DOMAIN graph |-> 0]
    /\ hop_result = [d \in DOMAIN graph |-> <<>>]
    /\ hop_sent = [d \in DOMAIN graph |-> FALSE]
    /\ original_result = orchestrator_answers(<<>>, hop_result)
    /\ close_async_scheduled = FALSE
    /\ finalized = FALSE
    /\ panic = "none"
    /\ last = Did("init", NoUri, NULL, NULL, FALSE, FALSE, <<>>)
    /\ SmokeInit

\* The builds: TEN_ASSERT is compiled in (TRUE), or compiled to nothing
\* (FALSE) and the handler goes on past the failed condition.
Builds == BOOLEAN

\* A TEN_ASSERT fails in a build that has it: the process aborts inside the
\* handler.
Abort(tag, op, uri, r, hop) ==
    /\ panic' = tag
    /\ last' = Did(op, uri, r, hop, FALSE, FALSE, <<>>)
    /\ UNCHANGED <<smoke, config, protocol_ref,
                   is_closing, has_uncompleted_async_task,
                   remotes, weak_remotes, rem, dialed,
                   inbound, pending_creates, closing_protocols, cb_count,
                   hop_result, close_async_scheduled, finalized, hop_sent,
                   original_result>>

\* ------------------------------------------------- asynchronous creation

\* A variant that raises the flag before it knows whether the request was taken.
ten_engine_create_remote_async_sets_first(task, success) == TRUE

\* ten_engine_create_remote_async: has_uncompleted_async_task after the call,
\* `success` being what ten_addon_create_protocol_with_uri returned.
ten_engine_create_remote_async(task, success) ==
    IF success THEN TRUE ELSE task

\* The per-hop command that is handed to ten_engine_connect_to_graph_remote
\* next, or NULL when all were.
NextHop ==
    LET waiting == {d \in DOMAIN graph : dialed[d] = "no"}
    IN IF waiting = {} THEN NULL
       ELSE CHOOSE d \in waiting : \A e \in waiting : d <= e

\* ten_engine_connect_to_graph_remote, which is ten_engine_create_remote_async
\* with ten_engine_connect_to_remote_after_remote_is_created as the callback.
\* `accepted` is what ten_addon_create_protocol_with_uri returns, and what the
\* function returns; when it is refused nothing else happens here.
ten_engine_connect_to_graph_remote(hop, accepted) ==
    /\ Running
    /\ hop = NextHop
    /\ dialed' = [dialed EXCEPT ![hop] = IF accepted THEN "accepted" ELSE "refused"]
    /\ has_uncompleted_async_task' =
           ten_engine_create_remote_async(has_uncompleted_async_task, accepted)
    /\ pending_creates' = IF accepted THEN pending_creates \cup {hop}
                          ELSE pending_creates
    /\ last' = Did("connect_to_graph_remote", graph[hop], NULL, hop, accepted,
                   FALSE, <<>>)
    /\ UNCHANGED <<smoke, config, protocol_ref,
                   is_closing, remotes,
                   weak_remotes, rem, inbound, closing_protocols, cb_count,
                   hop_result, original_result,
                   close_async_scheduled, finalized, panic, hop_sent>>

\* The orchestrator, to which ten_engine_connect_to_graph_remote returned
\* false, answers the per-hop command itself.
orchestrator_on_create_failed(hop) ==
    /\ Running
    /\ dialed[hop] = "refused"
    /\ hop_result[hop] = <<>>
    /\ hop_result' = ten_engine_return_error_for_cmd_start_graph(
                         hop_result, hop, "Failed to create remote (%s)",
                         graph[hop])
    /\ original_result' = orchestrator_answers(original_result, hop_result')
    /\ last' = Did("orchestrator_on_create_failed", graph[hop], NULL, hop,
                   FALSE, FALSE,
                   <<Call("return_error_for_cmd_start_graph", NULL, "ERROR",
                          "Failed to create remote (%s)", graph[hop])>>)
    /\ UNCHANGED <<smoke, config, protocol_ref,
                   is_closing, has_uncompleted_async_task, remotes,
                   weak_remotes, rem, dialed, inbound, pending_creates,
                   closing_protocols, cb_count,
                   close_async_scheduled, finalized, panic, hop_sent>>

\* A variant that builds the remote whether or not the engine is closing.
created_remote_ignores_closing(closing, fresh) == fresh

\* A variant that takes the closing branch, which registers
\* ten_engine_on_protocol_closed, whether or not the engine is closing.
created_remote_never(closing, fresh) == NULL

\* The remote ten_engine_on_protocol_created hands to the callback: none when
\* the engine is closing, else the remote it builds on the new protocol.
created_remote(closing, fresh) == IF closing THEN NULL ELSE fresh

\* A variant that clears the flag before it tests is_closing.
flag_after_created_cleared_first(closing, flag) == FALSE

\* has_uncompleted_async_task when ten_engine_on_protocol_created returns: the
\* closing branch returns before the assignment, the normal branch clears it.
flag_after_created(closing, flag) == IF closing THEN flag ELSE FALSE

\* ten_engine_on_protocol_created, and the callback it invokes,
\* ten_engine_connect_to_remote_after_remote_is_created.  `original_cmd` is
\* whether engine->original_start_graph_cmd_of_enabling_engine is set: the
\* field is written by the handler of the start_graph command, outside this
\* file, and the callback can find it either way.
ten_engine_on_protocol_created(hop) ==
    /\ Running
    /\ hop \in pending_creates
    /\ \E checked \in Builds, original_cmd \in BOOLEAN :
       LET uri == graph[hop]
       IN
       IF ~original_cmd /\ checked
       THEN Abort("connect_to_remote_after_remote_is_created",
                  "on_protocol_created", uri, NULL, hop)
       ELSE IF created_remote(is_closing, NewRemote) = NULL
       THEN \* cb(self, NULL, user_data), then the protocol is closed.
            /\ pending_creates' = pending_creates \ {hop}
            /\ cb_count' = [cb_count EXCEPT ![hop] = @ + 1]
            /\ protocol_ref' = [protocol_ref EXCEPT ![hop] = 1]
            /\ hop_result' = ten_engine_return_error_for_cmd_start_graph(
                                 hop_result, hop, "Failed to create remote (%s)", uri)
            /\ closing_protocols' = closing_protocols \cup {hop}
            /\ last' = Did("on_protocol_created", uri, NULL, hop, FALSE, FALSE,
                           <<Call("cb", NULL, "", "", uri),
                             Call("return_error_for_cmd_start_graph", NULL, "ERROR",
                                  "Failed to create remote (%s)", uri),
                             Call("ten_protocol_set_on_closed", NULL, "",
                                  "ten_engine_on_protocol_closed", uri),
                             Call("ten_protocol_close", NULL, "", "", uri)>>)
            /\ original_result' = orchestrator_answers(original_result, hop_result')
            /\ has_uncompleted_async_task' =
                   flag_after_created(is_closing, has_uncompleted_async_task)
            /\ UNCHANGED <<smoke, config, is_closing,
                           remotes, weak_remotes, rem,
                           dialed, inbound, close_async_scheduled, finalized,
                           panic, hop_sent>>
       ELSE LET r == created_remote(is_closing, NewRemote)
                created == [rem EXCEPT
                               ![r] = ten_remote_create_for_engine(uri, "out", hop)]
            IN IF ten_engine_check_remote_is_duplicated(uri)
               THEN \* The remote is closed; the command is answered OK.
                    /\ rem' = ten_remote_close(created, r)
                    /\ weak_remotes' = weak_remotes
                    /\ hop_result' = ten_engine_return_ok_for_cmd_start_graph(
                                         hop_result, hop)
                    /\ has_uncompleted_async_task' =
                           flag_after_created(is_closing, has_uncompleted_async_task)
                    /\ pending_creates' = pending_creates \ {hop}
                    /\ cb_count' = [cb_count EXCEPT ![hop] = @ + 1]
                    /\ protocol_ref' = [protocol_ref EXCEPT ![hop] = 1]
                    /\ last' = Did("on_protocol_created", uri, r, hop, TRUE, FALSE,
                                   <<Call("cb", r, "", "", uri),
                                     Call("ten_remote_close", r, "", "", uri),
                                     Call("return_ok_for_cmd_start_graph", r, "OK",
                                          "", NoUri)>>)
                    /\ original_result' = orchestrator_answers(original_result, hop_result')
                    /\ UNCHANGED <<smoke, config, is_closing, remotes, dialed, inbound, closing_protocols,
                                   close_async_scheduled, finalized, panic,
                                   hop_sent>>
               ELSE LET added == ten_engine_add_weak_remote(weak_remotes, r, uri)
                    IN IF ~added.ok /\ checked
                       THEN Abort("add_weak_remote", "on_protocol_created", uri, r,
                                  hop)
                       ELSE /\ weak_remotes' = added.list
                            /\ rem' = ten_remote_connect_to(created, r)
                            /\ hop_result' = hop_result
                            /\ has_uncompleted_async_task' =
                                   flag_after_created(is_closing, has_uncompleted_async_task)
                            /\ pending_creates' = pending_creates \ {hop}
                            /\ cb_count' = [cb_count EXCEPT ![hop] = @ + 1]
                            /\ protocol_ref' = [protocol_ref EXCEPT ![hop] = 1]
                            /\ last' = Did("on_protocol_created", uri, r, hop, FALSE,
                                           FALSE,
                                           <<Call("cb", r, "", "", uri),
                                             Call("ten_remote_connect_to", r, "", "",
                                                  uri)>>)
                            /\ original_result' = orchestrator_answers(original_result, hop_result')
                            /\ UNCHANGED <<smoke, config, is_closing,
                                           remotes,
                                           dialed, inbound, closing_protocols,
                                           close_async_scheduled, finalized,
                                           panic, hop_sent>>

\* A variant that gives the reference back twice.
ten_ref_dec_ref_twice(ref) == ref - 2

\* ten_ref_dec_ref(&protocol->ref)
ten_ref_dec_ref(ref) == ref - 1

\* ten_engine_on_protocol_closed
ten_engine_on_protocol_closed(hop) ==
    /\ Running
    /\ hop \in closing_protocols
    /\ \E checked \in Builds :
       IF ~is_closing /\ checked
       THEN Abort("on_protocol_closed", "on_protocol_closed", graph[hop], NULL,
                  hop)
       ELSE /\ has_uncompleted_async_task' = FALSE
            /\ closing_protocols' = closing_protocols \ {hop}
            /\ protocol_ref' = [protocol_ref EXCEPT ![hop] = ten_ref_dec_ref(@)]
            /\ finalized' = ten_engine_on_close(remotes, weak_remotes, FALSE)
            /\ last' = Did("on_protocol_closed", graph[hop], NULL, hop, FALSE,
                           FALSE,
                           <<Call("ten_ref_dec_ref", NULL, "", "", graph[hop]),
                             Call("ten_engine_on_close", NULL, "", "", NoUri)>>)
            /\ UNCHANGED <<smoke, config, is_closing,
                           remotes, weak_remotes, rem, dialed, inbound,
                           pending_creates, cb_count, hop_result,
                           close_async_scheduled, panic, hop_sent,
                           original_result>>

\* --------------------------------------------------------- the dial ends

\* A variant that leaves remote->on_server_connected_cmd set.
on_server_connected_cmd_cleared_keeps(table, r) == table

\* self->on_server_connected_cmd = NULL
on_server_connected_cmd_cleared(table, r) == [table EXCEPT ![r].cmd = FALSE]

\* ten_engine_on_graph_remote_connected, the on_connected callback given to
\* ten_remote_connect_to: the dial of the remote succeeded; the stored command
\* is sent over the protocol of the remote and is cleared.
ten_engine_on_graph_remote_connected(r) ==
    /\ Running
    /\ r \in DOMAIN rem
    /\ rem[r].life = "alive" /\ rem[r].dial = "dialing" /\ ~rem[r].closing
    /\ rem' = on_server_connected_cmd_cleared(
                  [rem EXCEPT ![r].dial = "connected"], r)
    /\ hop_sent' = [hop_sent EXCEPT ![rem[r].protocol] = TRUE]
    /\ last' = Did("on_graph_remote_connected", rem[r].uri, r, rem[r].protocol,
                   FALSE, FALSE,
                   <<Call("ten_protocol_send_msg", r, "", "", rem[r].uri)>>)
    /\ UNCHANGED <<smoke, config, protocol_ref,
                   is_closing, has_uncompleted_async_task,
                   remotes, weak_remotes, dialed, inbound,
                   pending_creates, closing_protocols,
                   cb_count, hop_result,
                   close_async_scheduled, finalized, panic,
                   original_result>>

\* ten_engine_on_graph_remote_connect_error, the on_error callback given to
\* ten_remote_connect_to: the dial of the remote failed.
ten_engine_on_graph_remote_connect_error(r) ==
    /\ Running
    /\ r \in DOMAIN rem
    /\ rem[r].life = "alive" /\ rem[r].dial = "dialing"
    /\ hop_result' = ten_engine_return_error_for_cmd_start_graph(
                         hop_result, rem[r].protocol, "Failed to connect to %s",
                         rem[r].uri)
    /\ rem' = ten_remote_close([rem EXCEPT ![r].cmd = FALSE, ![r].dial = "failed"], r)
    /\ last' = Did("on_connect_error", rem[r].uri, r, rem[r].protocol, FALSE,
                   FALSE,
                   <<Call("return_error_for_cmd_start_graph", r, "ERROR",
                          "Failed to connect to %s", rem[r].uri),
                     Call("ten_remote_close", r, "", "", rem[r].uri)>>)
    /\ original_result' = orchestrator_answers(original_result, hop_result')
    /\ UNCHANGED <<smoke, config, protocol_ref,
                   is_closing, has_uncompleted_async_task,
                   remotes, weak_remotes, dialed,
                   inbound, pending_creates, closing_protocols, cb_count,
                   close_async_scheduled, finalized, panic, hop_sent>>

\* ten_engine_upgrade_weak_remote_to_normal_remote: ten_engine_del_weak_remote,
\* then ten_engine_add_remote.
ten_engine_upgrade_weak_remote_to_normal_remote(remote) ==
    [weak_remotes |-> ten_engine_del_weak_remote(weak_remotes, remote).list,
     remotes |-> ten_engine_add_remote(remotes, remote)]

\* The promotion of a weak remote whose dial succeeded: its caller runs
\* ten_engine_upgrade_weak_remote_to_normal_remote.
promote(r) ==
    /\ Running
    /\ r \in Range(weak_remotes)
    /\ rem[r].life = "alive" /\ rem[r].dial = "connected" /\ ~rem[r].closing
    /\ LET up == ten_engine_upgrade_weak_remote_to_normal_remote(r)
       IN /\ weak_remotes' = up.weak_remotes
          /\ remotes' = up.remotes
    /\ last' = Did("upgrade_weak_remote_to_normal_remote", rem[r].uri, r,
                   rem[r].protocol, FALSE, FALSE, <<>>)
    /\ UNCHANGED <<smoke, config, protocol_ref, rem,
                   is_closing, has_uncompleted_async_task,
                   dialed, inbound, pending_creates, closing_protocols,
                   cb_count, hop_result, hop_sent,
                   close_async_scheduled, finalized, panic,
                   original_result>>

\* ------------------------------------------------------- inbound channels

\* ten_engine_link_orphan_connection_to_remote: an accepted inbound connection
\* becomes a strong remote.  The function asserts that no strong remote has
\* the uri; a build without the assertion adds the remote all the same.
ten_engine_link_orphan_connection_to_remote(uri) ==
    /\ Running
    /\ inbound < MaxInbound
    /\ \E checked \in Builds :
       IF ten_engine_find_remote(uri) # {NULL} /\ checked
       THEN Abort("link_orphan_connection_to_remote", "link_orphan", uri, NULL,
                  NULL)
       ELSE LET r == NewRemote
                created == [rem EXCEPT
                               ![r] = ten_remote_create_for_engine(uri, "in", NULL)]
            IN /\ rem' = created
               /\ inbound' = inbound + 1
               /\ remotes' = ten_engine_add_remote(remotes, r)
               /\ last' = Did("link_orphan", uri, r, NULL, FALSE, FALSE,
                              <<Call("ten_engine_del_orphan_connection", r, "", "",
                                     uri),
                                Call("ten_connection_set_on_closed", r, "",
                                     "ten_remote_on_connection_closed", uri)>>)
               /\ UNCHANGED <<smoke, config, protocol_ref,
                              is_closing, has_uncompleted_async_task,
                              weak_remotes, dialed,
                              pending_creates, closing_protocols, cb_count,
                              hop_result, close_async_scheduled, finalized,
                              panic, hop_sent, original_result>>

\* The connection of a remote closes by itself (the peer hangs up, the
\* transport fails): the closed callback of the remote will follow.
connection_closed(r) ==
    /\ Running
    /\ r \in DOMAIN rem
    /\ rem[r].life = "alive" /\ ~rem[r].closing
    /\ rem' = ten_remote_close(rem, r)
    /\ last' = Did("connection_closed", rem[r].uri, r, rem[r].protocol, FALSE,
                   FALSE, <<>>)
    /\ UNCHANGED <<smoke, config, protocol_ref,
                   is_closing, has_uncompleted_async_task,
                   remotes, weak_remotes, dialed,
                   inbound, pending_creates, closing_protocols, cb_count,
                   hop_result, close_async_scheduled, finalized, panic,
                   hop_sent, original_result>>

\* ------------------------------------------------------- a remote closed

\* A variant that takes whatever entry holds the uri for the remote.
is_exact_entry_by_uri(strong_remote, remote) == strong_remote # NULL

\* strong_remote == remote: the entry of the strong table under the uri of the
\* remote is the remote itself.
is_exact_entry(strong_remote, remote) == strong_remote = remote

\* A variant that schedules the close for the last strong remote only.
on_remote_closed_calls_close_async_for_last(closing, is_weak, long_running) ==
    ~closing /\ ~is_weak /\ ~long_running /\ Cardinality(remotes) <= 1

\* A variant that never continues the closing of the engine.
on_remote_closed_never_calls_on_close(closing) == FALSE

\* Whether ten_engine_on_remote_closed, the remote taken off its table, calls
\* ten_engine_on_close.
on_remote_closed_calls_on_close(closing) == closing

\* A variant that closes the engine for a weak remote too.
on_remote_closed_calls_close_async_for_weak(closing, is_weak, long_running) ==
    ~closing /\ ~long_running

\* Whether ten_engine_on_remote_closed, the remote taken off its table, calls
\* ten_engine_close_async.
on_remote_closed_calls_close_async(closing, is_weak, long_running) ==
    ~closing /\ ~is_weak /\ ~long_running

\* ten_engine_on_remote_closed: the closed callback of a remote.  A weak remote
\* is destroyed by the handler.  The exact strong entry is handed to
\* ten_hashtable_del: the entry was added with ten_remote_destroy as its
\* destroy function, and the comment at the call says that the removal does
\* not destroy the remote yet; the table's code is not in this file, and the
\* entry is either destroyed by the call (entry_destroyed) or left as it is.
ten_engine_on_remote_closed(r) ==
    /\ Running
    /\ r \in DOMAIN rem
    /\ rem[r].life = "alive" /\ rem[r].closing /\ ~rem[r].closed
    /\ LET uri == rem[r].uri
           weak == ten_engine_del_weak_remote(weak_remotes, r)
           is_weak == weak.success
       IN \E checked \in Builds, entry_destroyed \in BOOLEAN,
             strong_remote \in ten_hashtable_find_string(remotes, uri) :
          LET found_in_remotes == ~is_weak /\ is_exact_entry(strong_remote, r)
          IN
          IF ten_engine_weak_remotes_cnt_in_specified_uri(uri) > 1 /\ checked
          THEN Abort("on_remote_closed", "on_remote_closed", uri, r,
                     rem[r].protocol)
          ELSE IF ~is_weak /\ ~found_in_remotes
          THEN \* Not weak, and not the entry of its uri: destroyed, and
               \* nothing else.  When the remote is itself an entry of the
               \* table (two entries of one uri, and the lookup gave the
               \* other), the table is left with freed memory: what the
               \* process does from there on is undefined.
               /\ rem' = ten_remote_destroy(rem, r)
               /\ panic' = IF r \in remotes THEN "freed_remote_in_remotes"
                           ELSE panic
               /\ last' = Did("on_remote_closed", uri, r, rem[r].protocol, FALSE,
                              FALSE,
                              <<Call("ten_remote_destroy", r, "", "", uri)>>)
               /\ UNCHANGED <<smoke, config, protocol_ref,
                              is_closing, has_uncompleted_async_task,
                              remotes, weak_remotes,
                              dialed, inbound, pending_creates,
                              closing_protocols, cb_count, hop_result,
                              close_async_scheduled, finalized, hop_sent,
                              original_result>>
          ELSE LET table == IF found_in_remotes
                            THEN ten_hashtable_del(remotes, strong_remote)
                            ELSE remotes
                   closes == on_remote_closed_calls_close_async(
                                 is_closing, is_weak, long_running_mode)
               IN /\ weak_remotes' = weak.list
                  /\ remotes' = table
                  /\ rem' = IF is_weak \/ entry_destroyed
                            THEN ten_remote_destroy(rem, r)
                            ELSE [rem EXCEPT ![r].closed = TRUE]
                  /\ finalized' = (on_remote_closed_calls_on_close(is_closing)
                                    /\ ten_engine_on_close(
                                           table, weak.list,
                                           has_uncompleted_async_task))
                  /\ close_async_scheduled' = (close_async_scheduled \/ closes)
                  /\ last' = Did("on_remote_closed", uri, r, rem[r].protocol,
                                 is_weak, FALSE,
                                 <<Call(IF is_weak THEN "ten_remote_destroy"
                                        ELSE "ten_hashtable_del", r, "", "", uri)>>
                                 \o (IF on_remote_closed_calls_on_close(is_closing)
                                     THEN <<Call("ten_engine_on_close", NULL, "", "",
                                                 NoUri)>>
                                     ELSE IF closes
                                     THEN <<Call("ten_engine_close_async", NULL, "",
                                                 "", NoUri)>>
                                     ELSE <<>>))
                  /\ UNCHANGED <<smoke, config, protocol_ref,
                                 is_closing, has_uncompleted_async_task,
                                 dialed, inbound,
                                 pending_creates, closing_protocols, cb_count,
                                 hop_result, panic, hop_sent, original_result>>

\* ---------------------------------------------------------------- router

\* A variant that forgets ten_error_set on a miss.
route_error_unset(remote, send_ok, dest_uri) ==
    IF remote # NULL /\ ~send_ok
    THEN [fmt |-> "send error", arg |-> NoUri]
    ELSE [fmt |-> "", arg |-> NoUri]

\* The error left in `err` by the attempt to deliver: none, the error of the
\* send, or the miss.
route_error(remote, send_ok, dest_uri) ==
    IF remote # NULL
    THEN IF send_ok THEN [fmt |-> "", arg |-> NoUri]
         ELSE [fmt |-> "send error", arg |-> NoUri]
    ELSE [fmt |-> "Could not find suitable remote based on uri: %s",
          arg |-> dest_uri]

\* A variant that does not ask whether the message is a command.
route_notifies_sender_any(success, is_cmd) == ~success

\* Whether a cmd_result is created and dispatched.
route_notifies_sender(success, is_cmd) == ~success /\ is_cmd

\* ten_engine_route_msg_to_remote: msg has one destination, dest_uri; `send_ok`
\* is what ten_remote_send_msg returns when it is called, `remote` what
\* ten_engine_find_remote returns.
ten_engine_route_msg_to_remote(dest_uri, is_cmd, send_ok) ==
    /\ Running
    /\ \E remote \in ten_engine_find_remote(dest_uri) :
       LET success == IF remote # NULL THEN send_ok ELSE FALSE
           err == route_error(remote, send_ok, dest_uri)
           sends == IF remote # NULL
                    THEN <<Call("ten_remote_send_msg", remote,
                                IF send_ok THEN "OK" ELSE "ERROR", "", dest_uri)>>
                    ELSE <<>>
           results == IF route_notifies_sender(success, is_cmd)
                      THEN <<Call("create_cmd_result_and_dispatch", NULL, "ERROR",
                                  err.fmt, err.arg)>>
                      ELSE <<>>
       IN /\ remote = NULL => send_ok
          /\ last' = Did("route_msg_to_remote", dest_uri, remote, NULL, success,
                         is_cmd, sends \o results)
    /\ UNCHANGED <<smoke, config, protocol_ref,
                   is_closing, has_uncompleted_async_task,
                   remotes, weak_remotes, rem, dialed,
                   inbound, pending_creates, closing_protocols, cb_count,
                   hop_result, close_async_scheduled, finalized, panic,
                   hop_sent, original_result>>

\* The types a message can have.
MsgTypes == {"CMD_START_GRAPH", "CMD_RESULT", "DATA"}

\* A variant that forwards every message.
receive_answers_error_never(type) == FALSE

\* Whether ten_engine_receive_msg_from_remote answers the message itself, with
\* an ERROR result, instead of dispatching it.
receive_answers_error(type) == type = "CMD_START_GRAPH"

\* ten_engine_receive_msg_from_remote: a message of that type arrives over the
\* connection of remote r.
ten_engine_receive_msg_from_remote(r, type) ==
    /\ Running
    /\ r \in DOMAIN rem
    /\ rem[r].life = "alive" /\ ~rem[r].closing
    /\ rem[r].origin = "in" \/ rem[r].dial = "connected"
    /\ last' = Did("receive_msg_from_remote", rem[r].uri, r, rem[r].protocol,
                   TRUE, type = "CMD_START_GRAPH",
                   <<Call("ten_msg_set_src_graph_id_if_empty", r, "", type,
                          rem[r].uri),
                     Call("ten_msg_set_dest_graph_if_empty_or_predefined_graph_name",
                          r, "", type, rem[r].uri)>>
                   \o (IF receive_answers_error(type)
                       THEN <<Call("ten_connection_send_msg", r, "ERROR",
                                   "Receive a start_graph cmd after graph is built.",
                                   NoUri)>>
                       ELSE <<Call("ten_engine_dispatch_msg", NULL, "", type,
                                   rem[r].uri)>>))
    /\ UNCHANGED <<smoke, config, protocol_ref,
                   is_closing, has_uncompleted_async_task,
                   remotes, weak_remotes, rem, dialed,
                   inbound, pending_creates, closing_protocols, cb_count,
                   hop_result, hop_sent, original_result, close_async_scheduled,
                   finalized, panic>>

\* The peer answers the per-hop start_graph that was sent to it over remote r.
peer_result(r) ==
    /\ Running
    /\ r \in DOMAIN rem
    /\ rem[r].life = "alive" /\ ~rem[r].closing /\ rem[r].origin = "out"
    /\ hop_sent[rem[r].protocol] /\ hop_result[rem[r].protocol] = <<>>
    /\ hop_result' = ten_engine_return_ok_for_cmd_start_graph(hop_result,
                                                               rem[r].protocol)
    /\ last' = Did("peer_result", rem[r].uri, r, rem[r].protocol, FALSE, FALSE,
                   <<>>)
    /\ original_result' = orchestrator_answers(original_result, hop_result')
    /\ UNCHANGED <<smoke, config, protocol_ref,
                   is_closing, has_uncompleted_async_task,
                   remotes, weak_remotes, rem, dialed,
                   inbound, pending_creates, closing_protocols, cb_count,
                   hop_sent, close_async_scheduled, finalized,
                   panic>>

\* ------------------------------------------------------------- shutdown

\* The engine starts to close (ten_engine_close_async has run, or the app
\* closes the engine): every remote of both tables is asked to close, and the
\* engine finalizes at once when nothing blocks it.
ten_engine_close ==
    /\ Running
    /\ ~is_closing
    /\ is_closing' = TRUE
    /\ close_async_scheduled' = FALSE
    /\ rem' = [r \in DOMAIN rem |->
                 IF r \in remotes \cup Range(weak_remotes) /\ rem[r].life = "alive"
                 THEN [rem[r] EXCEPT !.closing = TRUE] ELSE rem[r]]
    /\ finalized' = ten_engine_on_close(remotes, weak_remotes,
                                        has_uncompleted_async_task)
    /\ last' = Did("close", NoUri, NULL, NULL, FALSE, FALSE,
                   <<Call("ten_engine_on_close", NULL, "", "", NoUri)>>)
    /\ UNCHANGED <<smoke, config, protocol_ref,
                   has_uncompleted_async_task, 
                   remotes, weak_remotes, dialed, inbound, pending_creates,
                   closing_protocols, cb_count, hop_result, panic, hop_sent,
                   original_result>>

\* ------------------------------------------------------------------ Next

\* The handlers of the start_graph flow and of the closing of the engine.
Next ==
    \/ \E hop \in DOMAIN graph, accepted \in BOOLEAN :
           ten_engine_connect_to_graph_remote(hop, accepted)
    \/ \E hop \in DOMAIN graph : orchestrator_on_create_failed(hop)
    \/ \E hop \in DOMAIN graph : ten_engine_on_protocol_created(hop)
    \/ \E hop \in DOMAIN graph : ten_engine_on_protocol_closed(hop)
    \/ \E r \in DOMAIN rem : ten_engine_on_graph_remote_connected(r)
    \/ \E r \in DOMAIN rem : ten_engine_on_graph_remote_connect_error(r)
    \/ \E r \in DOMAIN rem : promote(r)
    \/ \E uri \in PeerUris : ten_engine_link_orphan_connection_to_remote(uri)
    \/ \E r \in DOMAIN rem : connection_closed(r)
    \/ \E r \in DOMAIN rem : ten_engine_on_remote_closed(r)
    \/ \E r \in DOMAIN rem : peer_result(r)
    \/ ten_engine_close

Spec == Init /\ [][Next]_vars

\* A callback that is pending: the creation of a protocol, the closed callback
\* of a protocol, the end of a dial, the closed callback of a remote.
PendingCallback ==
    \/ \E hop \in 1..MaxDials : ten_engine_on_protocol_created(hop)
    \/ \E hop \in 1..MaxDials : ten_engine_on_protocol_closed(hop)
    \/ \E r \in 1..MaxRemotes : ten_engine_on_graph_remote_connected(r)
    \/ \E r \in 1..MaxRemotes : ten_engine_on_graph_remote_connect_error(r)
    \/ \E r \in 1..MaxRemotes : ten_engine_on_remote_closed(r)

\* The handlers under fair delivery: a callback that stays pending is
\* delivered in the end.
FairSpec == Spec /\ WF_vars(PendingCallback)

\* The same handlers, and the messages that the engine routes to its remotes
\* and receives from them.
MsgNext ==
    \/ Next
    \/ \E dest_uri \in DestUris, is_cmd \in BOOLEAN, send_ok \in BOOLEAN :
           ten_engine_route_msg_to_remote(dest_uri, is_cmd, send_ok)
    \/ \E r \in DOMAIN rem, type \in MsgTypes :
           ten_engine_receive_msg_from_remote(r, type)

\* The routing is followed in the behaviours with at most MaxMsgDials per-hop
\* commands.
MsgInit == Init /\ Len(graph) <= MaxMsgDials

MsgSpec == MsgInit /\ [][MsgNext]_vars

\* ------------------------------------------------- smoke test: return_2

\* The client sends hello_world to test_extension_1, the graph being started.
client_send_hello_world ==
    /\ hello_world = "unsent"
    /\ hello_world' = "sent"
    /\ UNCHANGED <<engine, start_graph_2, dest_state, received_cmd_results_cnt,
                   handler_calls, expect_failed, hello_results, hello_checked>>

\* test_extension_1::on_cmd: the command is sent on with a result handler;
\* the graph routes it to test_extension_2 and test_extension_3.
test_extension_1_on_cmd ==
    /\ hello_world = "sent"
    /\ hello_world' = "forwarded"
    /\ dest_state' = [d \in Dests |-> "cmd"]
    /\ UNCHANGED <<engine, start_graph_2, received_cmd_results_cnt,
                   handler_calls, expect_failed, hello_results, hello_checked>>

\* test_extension_2::on_cmd, test_extension_3::on_cmd: one OK result is returned.
destination_on_cmd(d) ==
    /\ dest_state[d] = "cmd"
    /\ dest_state' = [dest_state EXCEPT ![d] = "result"]
    /\ UNCHANGED <<engine, start_graph_2, hello_world, received_cmd_results_cnt,
                   handler_calls, expect_failed, hello_results, hello_checked>>

\* The result of destination d reaches the runtime of test_extension_1, which
\* hands it to the result handler given to send_cmd or keeps it (`handled`):
\* the code that decides is not in the test.  The handler checks and
\* decrements received_cmd_results_cnt, sets the detail and returns the result.
test_extension_1_on_cmd_result(d, handled) ==
    /\ dest_state[d] = "result"
    /\ dest_state' = [dest_state EXCEPT ![d] = "done"]
    /\ IF handled
       THEN /\ expect_failed' =
                   (expect_failed \/ received_cmd_results_cnt # size_t(1))
            /\ received_cmd_results_cnt' =
                   size_t_decrement(received_cmd_results_cnt)
            /\ handler_calls' = handler_calls + 1
            /\ hello_results' = Append(hello_results, CmdResult("OK", DetailExt1, NoUri))
       ELSE UNCHANGED <<expect_failed, received_cmd_results_cnt, handler_calls,
                        hello_results>>
    /\ UNCHANGED <<engine, start_graph_2, hello_world, hello_checked>>

\* send_cmd_and_recv_result returns in the client, which checks the status
\* code and the detail of the result.
client_recv_hello_world ==
    /\ hello_checked = "no"
    /\ hello_results # <<>>
    /\ hello_checked' = IF hello_results[1] = CmdResult("OK", DetailExt1, NoUri)
                        THEN "pass" ELSE "fail"
    /\ UNCHANGED <<engine, start_graph_2, hello_world, dest_state,
                   received_cmd_results_cnt, handler_calls, expect_failed,
                   hello_results>>

\* ------------------- smoke test: start_graph_with_msg_conversion_2

\* test_predefined_graph::on_start: the start_graph command is sent.
test_predefined_graph_on_start ==
    /\ ~on_start_called
    /\ on_start_called' = TRUE
    /\ start_graph_cmd' = "sent"
    /\ UNCHANGED <<engine, return_2, stop_graph_cmd, start_graph_cmd_is_done,
                   test_cmd, client_test_cmd, test_results, test_checked>>

\* The result handler of start_graph: the stop_graph command is sent.
on_start_graph_result ==
    /\ start_graph_cmd = "sent"
    /\ start_graph_cmd' = "done"
    /\ stop_graph_cmd' = "sent"
    /\ UNCHANGED <<engine, return_2, on_start_called, start_graph_cmd_is_done,
                   test_cmd, client_test_cmd, test_results, test_checked>>

\* A variant that forgets the command it stored.
answers_stored_cmd_never(stored) == FALSE

\* if (test_cmd != nullptr)
answers_stored_cmd(stored) == stored

\* The result handler of stop_graph: start_graph_cmd_is_done is set and a
\* stored test command is answered.
on_stop_graph_result ==
    /\ stop_graph_cmd = "sent"
    /\ stop_graph_cmd' = "done"
    /\ start_graph_cmd_is_done' = TRUE
    /\ test_results' = IF answers_stored_cmd(test_cmd)
                       THEN Append(test_results, CmdResult("OK", DetailTest, NoUri))
                       ELSE test_results
    /\ UNCHANGED <<engine, return_2, on_start_called, start_graph_cmd, test_cmd,
                   client_test_cmd, test_checked>>

\* The client sends the test command to the predefined graph.
client_send_test_cmd ==
    /\ client_test_cmd = "unsent"
    /\ client_test_cmd' = "sent"
    /\ UNCHANGED <<engine, return_2, on_start_called, start_graph_cmd,
                   stop_graph_cmd, start_graph_cmd_is_done, test_cmd,
                   test_results, test_checked>>

\* test_predefined_graph::on_cmd for "test": answered at once when
\* start_graph_cmd_is_done, stored otherwise.
test_predefined_graph_on_cmd ==
    /\ on_start_called
    /\ client_test_cmd = "sent"
    /\ client_test_cmd' = "delivered"
    /\ IF start_graph_cmd_is_done
       THEN /\ test_results' =
                   Append(test_results, CmdResult("OK", DetailTest, NoUri))
            /\ test_cmd' = test_cmd
       ELSE /\ test_cmd' = TRUE
            /\ test_results' = test_results
    /\ UNCHANGED <<engine, return_2, on_start_called, start_graph_cmd,
                   stop_graph_cmd, start_graph_cmd_is_done, test_checked>>

\* send_cmd_and_recv_result returns in the client, which checks the status
\* code and the detail of the result.
client_recv_test_result ==
    /\ test_checked = "no"
    /\ test_results # <<>>
    /\ test_checked' = IF test_results[1] = CmdResult("OK", DetailTest, NoUri)
                       THEN "pass" ELSE "fail"
    /\ UNCHANGED <<engine, return_2, on_start_called, start_graph_cmd,
                   stop_graph_cmd, start_graph_cmd_is_done, test_cmd,
                   client_test_cmd, test_results>>

\* The steps of the two smoke tests, each running against its own app.
SmokeNext ==
    \/ client_send_hello_world
    \/ test_extension_1_on_cmd
    \/ \E d \in Dests : destination_on_cmd(d)
    \/ \E d \in Dests, handled \in BOOLEAN : test_extension_1_on_cmd_result(d, handled)
    \/ client_recv_hello_world
    \/ test_predefined_graph_on_start
    \/ on_start_graph_result
    \/ on_stop_graph_result
    \/ client_send_test_cmd
    \/ test_predefined_graph_on_cmd
    \/ client_recv_test_result

\* The engine of the smoke tests before any remote is asked for.
SmokeStart == Init /\ app_uri = UriA /\ ~long_running_mode /\ graph = <<>>

SmokeSpec == SmokeStart /\ [][SmokeNext]_vars

\* Every message that is queued is handled in the end: the threads of the
\* extensions and of the client run their loops until the test is over.
SmokeFairSpec == SmokeSpec /\ WF_vars(SmokeNext)

\* ================================================================ claims

\* How many entries of the weak list have this uri.
WeakCount(u) ==
    Cardinality({i \in 1..Len(weak_remotes) : rem[weak_remotes[i]].uri = u})

\* How many entries of the strong table have this uri.
StrongCount(u) == Cardinality({r \in remotes : rem[r].uri = u})

\* The per-hop start_graph commands of the graph.
Hops == DOMAIN graph

\* The remote that was created for the dial of this per-hop command (NULL:
\* none was).
RemoteOf(d) ==
    IF \E r \in DOMAIN rem : rem[r].life # "none" /\ rem[r].protocol = d
    THEN CHOOSE r \in DOMAIN rem : rem[r].life # "none" /\ rem[r].protocol = d
    ELSE NULL

\* C1: weak uniqueness.  In every reachable state the weak list holds at most
\* one remote per URI, and neither the assertion of ten_engine_add_weak_remote
\* nor the one at the top of ten_engine_on_remote_closed has failed.
C1_WeakUniqueness ==
    /\ \A u \in PeerUris : WeakCount(u) <= 1
    /\ panic \notin {"add_weak_remote", "on_remote_closed"}

\* Where a remote identity is: the places are the weak list, the strong table,
\* detached and closing, destroyed.
InWeak(r) == r \in Range(weak_remotes)
InStrong(r) == r \in remotes
DetachedClosing(r) ==
    rem[r].life = "alive" /\ rem[r].closing /\ ~InWeak(r) /\ ~InStrong(r)
Destroyed(r) == rem[r].life = "destroyed"
Places(r) ==
    (IF InWeak(r) /\ rem[r].life = "alive" THEN 1 ELSE 0)
    + (IF InStrong(r) /\ rem[r].life = "alive" THEN 1 ELSE 0)
    + (IF DetachedClosing(r) THEN 1 ELSE 0)
    + (IF Destroyed(r) /\ ~InWeak(r) /\ ~InStrong(r) THEN 1 ELSE 0)

\* C2: disjointness.  Every remote identity is in exactly one of the weak list,
\* the strong table, detached-closing and destroyed; none is in both tables,
\* none is twice in the weak list, and a destroyed remote is in no table.
C2_Disjointness ==
    \A r \in {q \in DOMAIN rem : rem[q].life # "none"} :
        /\ Places(r) = 1
        /\ ~(InWeak(r) /\ InStrong(r))
        /\ Cardinality({i \in 1..Len(weak_remotes) : weak_remotes[i] = r}) <= 1
        /\ Destroyed(r) => ~InWeak(r) /\ ~InStrong(r)

\* C3: for every URI both tables together hold at most two remotes of that
\* URI, at most one of them weak.
C3_AtMostTwoPerUri ==
    \A u \in PeerUris :
        /\ StrongCount(u) + WeakCount(u) <= 2
        /\ WeakCount(u) <= 1

\* The calls of the most recent handler that are sends on a remote, and those
\* that dispatch a synthetic cmd_result.
Sends == SelectSeq(last.calls, LAMBDA c : c.call = "ten_remote_send_msg")
Synthetic ==
    SelectSeq(last.calls, LAMBDA c : c.call = "create_cmd_result_and_dispatch")

Routed == last.op = "route_msg_to_remote"

\* The result the router makes up on a miss for destination u.
RemoteNotFound(u) ==
    Call("create_cmd_result_and_dispatch", NULL, "ERROR",
         "Could not find suitable remote based on uri: %s", u)

\* C4: routing ignores weak remotes.  When the destination of a routed message
\* has a remote in the weak list only, nothing is sent, the delivery fails and
\* a command is answered with the RemoteNotFound result; and whatever is
\* routed, a send is made on a strong remote of that URI, never on a weak one.
C4_RoutingIgnoresWeak ==
    Routed =>
        /\ (WeakCount(last.uri) >= 1 /\ StrongCount(last.uri) = 0) =>
               /\ Sends = <<>>
               /\ ~last.ret
               /\ last.is_cmd => last.calls = <<RemoteNotFound(last.uri)>>
               /\ ~last.is_cmd => last.calls = <<>>
        /\ \A i \in 1..Len(Sends) :
               /\ InStrong(Sends[i].remote) /\ ~InWeak(Sends[i].remote)
               /\ rem[Sends[i].remote].uri = last.uri

\* A command was routed to a URI whose only remote is weak and dialing.
C4_Witness ==
    /\ Routed /\ last.is_cmd
    /\ StrongCount(last.uri) = 0
    /\ \E r \in DOMAIN rem :
           InWeak(r) /\ rem[r].uri = last.uri /\ rem[r].dial = "dialing"

\* C5: router miss.  A command routed to a URI without a strong remote gets
\* exactly one cmd_result, of status ERROR and with the detail "Could not find
\* suitable remote based on uri: u", nothing is sent on any remote, and the
\* routing leaves both tables as they were.
C5_RouterMiss ==
    /\ [](Routed /\ last.is_cmd /\ StrongCount(last.uri) = 0 =>
              /\ last.calls = <<RemoteNotFound(last.uri)>>
              /\ Len(Synthetic) = 1
              /\ Sends = <<>>)
    /\ [][last'.op = "route_msg_to_remote" =>
              UNCHANGED <<remotes, weak_remotes, rem>>]_vars

\* The miss of scenario S2: a strong remote exists, of another URI.
C5_Witness ==
    /\ Routed /\ last.is_cmd
    /\ StrongCount(last.uri) = 0 /\ WeakCount(last.uri) = 0
    /\ remotes # {}
    /\ last.calls = <<RemoteNotFound(last.uri)>>

\* The delivery of the routed message failed: no strong remote, or the send
\* on it reported an error.
DeliveryFailed ==
    \/ StrongCount(last.uri) = 0
    \/ \E i \in 1..Len(Sends) : Sends[i].status = "ERROR"

\* C6: the router dispatches a synthetic ERROR cmd_result exactly when the
\* message is a command and its delivery failed, and then exactly one; with a
\* strong remote whose send succeeds there is one send and no synthetic result;
\* a message that is no command never gets a result.
C6_SyntheticResultIff ==
    Routed =>
        /\ Len(Synthetic) = (IF last.is_cmd /\ DeliveryFailed THEN 1 ELSE 0)
        /\ \A i \in 1..Len(Synthetic) : Synthetic[i].status = "ERROR"
        /\ (StrongCount(last.uri) = 0) = (Sends = <<>>)
        /\ (StrongCount(last.uri) >= 1 /\ ~DeliveryFailed) =>
               Len(Sends) = 1 /\ Synthetic = <<>> /\ last.ret
        /\ (StrongCount(last.uri) >= 1 /\ DeliveryFailed /\ last.is_cmd) =>
               /\ Len(Sends) = 1
               /\ Synthetic = <<Call("create_cmd_result_and_dispatch", NULL,
                                     "ERROR", "send error", NoUri)>>
        /\ ~last.is_cmd => Synthetic = <<>>

\* A data message whose send on the strong remote failed: it is dropped.
C6_Witness ==
    /\ Routed /\ ~last.is_cmd
    /\ Len(Sends) = 1 /\ Sends[1].status = "ERROR"
    /\ Synthetic = <<>>

\* a <= b in the lexicographic order of byte strings: a is a prefix of b, or
\* a has the smaller byte at the first place where the two differ.
LexLeq(a, b) ==
    LET n == IF Len(a) < Len(b) THEN Len(a) ELSE Len(b)
        diff == {i \in 1..n : a[i] # b[i]}
    IN IF diff = {} THEN Len(a) <= Len(b)
       ELSE LET first == CHOOSE i \in diff : \A j \in diff : i <= j
            IN a[first] < b[first]

\* A remote of this uri is in the strong table or in the weak list.
Exists(u) == \E r \in remotes \cup Range(weak_remotes) : rem[r].uri = u

\* C7: ten_engine_check_remote_is_duplicated(peer_uri) is true exactly when a
\* remote of peer_uri is in the strong table or the weak list and peer_uri is
\* lexicographically smaller than or equal to the URI of the app; without such
\* a remote it is false whatever the order of the two URIs.
C7_DuplicatedIffExistsAndNotLarger ==
    \A u \in PeerUris \cup AppUris :
        /\ ten_engine_check_remote_is_duplicated(u)
               = (Exists(u) /\ LexLeq(u, app_uri))
        /\ ~Exists(u) => ~ten_engine_check_remote_is_duplicated(u)

\* The app holds a remote of its own URI (a duplicate by equality) and a remote
\* of a larger URI (no duplicate).
C7_Witness ==
    /\ Exists(app_uri) /\ ten_engine_check_remote_is_duplicated(app_uri)
    /\ \E u \in PeerUris :
           Exists(u) /\ ~LexLeq(u, app_uri)
           /\ ~ten_engine_check_remote_is_duplicated(u)

\* It holds a remote, and none of a URI that is smaller than its own.
C7_WitnessNoRemote ==
    \E u \in PeerUris :
        ~Exists(u) /\ LexLeq(u, app_uri) /\ u # app_uri /\ remotes # {}

\* The creation callback of an outbound dial ran to its end with a remote.
Created ==
    last.op = "on_protocol_created" /\ last.remote # NULL /\ panic = "none"

\* A remote of this uri other than r is in the strong table or the weak list.
ExistsOther(u, r) ==
    \E q \in (remotes \cup Range(weak_remotes)) \ {r} : rem[q].uri = u

\* The remote was closed as a duplicate before it entered a table.
Dropped(r) == DetachedClosing(r) /\ rem[r].dial = "none"

\* The remote is the weak remote of its URI and its dial is under way.
Retained(r) == InWeak(r) /\ ~InStrong(r) /\ rem[r].dial = "dialing" /\ rem[r].cmd

\* C8 as the specification states it: the engine drops its own outbound to a
\* peer it already holds a remote for exactly when its local URI <= the peer's.
C8_Original_SmallerOriginDropped ==
    (Created /\ ExistsOther(last.uri, last.remote)) =>
        /\ Dropped(last.remote) = LexLeq(app_uri, last.uri)
        /\ Retained(last.remote) = ~LexLeq(app_uri, last.uri)

\* C8, as the code has it: when the creation callback of an outbound dial finds a remote
\* of the peer, the outbound is dropped exactly when the peer's URI <= the local
\* URI, and retained otherwise; so of two apps a < b that dial each other, the
\* outbound of the larger one (B->A) is the duplicate and the outbound of the
\* smaller one (A->B) is retained.  Without a remote of the peer, it is retained.
C8_LargerOriginDropped ==
    Created =>
        /\ ExistsOther(last.uri, last.remote) =>
               /\ Dropped(last.remote) = LexLeq(last.uri, app_uri)
               /\ Retained(last.remote) = ~LexLeq(last.uri, app_uri)
               /\ (LexLeq(app_uri, last.uri) /\ app_uri # last.uri)
                      => Retained(last.remote)
               /\ (LexLeq(last.uri, app_uri) /\ app_uri # last.uri)
                      => Dropped(last.remote)
        /\ ~ExistsOther(last.uri, last.remote) => Retained(last.remote)

\* The app with the smaller URI keeps its outbound beside the inbound remote.
C8_Witness ==
    /\ Created /\ StrongCount(last.uri) = 1
    /\ app_uri = UriA /\ last.uri = UriB
    /\ Retained(last.remote)

\* The app with the larger URI drops its outbound beside the inbound remote.
C8_WitnessDropped ==
    /\ Created /\ StrongCount(last.uri) = 1
    /\ app_uri = UriC /\ last.uri = UriB
    /\ Dropped(last.remote)

\* The inbound connection of "B" was linked as a strong remote before the
\* creation callback of the engine's own dial to "B" ran.
InboundBThenCreated ==
    /\ Created /\ last.uri = UriB
    /\ \E r \in remotes : rem[r].uri = UriB /\ rem[r].origin = "in"

\* The per-hop start_graph d was answered OK by the last handler.
AnsweredOk(d) ==
    /\ hop_result[d] = <<CmdResult("OK", "", NoUri)>>
    /\ \E i \in 1..Len(last.calls) :
           last.calls[i].call = "return_ok_for_cmd_start_graph"

\* C9 as the specification states it: in S3 (engine "A") the check is true and
\* the new remote is closed, in S4 (engine "C") the check is false and the new
\* remote is kept.
C9_Original_S3DropsS4Keeps ==
    InboundBThenCreated =>
        /\ app_uri = UriA =>
               /\ ten_engine_check_remote_is_duplicated(UriB)
               /\ Dropped(last.remote)
               /\ AnsweredOk(last.hop)
        /\ app_uri = UriC =>
               /\ ~ten_engine_check_remote_is_duplicated(UriB)
               /\ Retained(last.remote)

\* C9, as the code has it: with the inbound connection of "B" linked first, on the engine
\* with uri "A" the check of "B" is false and the new outbound remote is kept
\* (added to the weak list and dialed, the per-hop command stored for the
\* connect); on the engine with uri "C" the check of "B" is true, the new remote
\* is closed without entering the weak list and the per-hop start_graph is
\* answered OK.
C9_S3KeepsS4Drops ==
    InboundBThenCreated =>
        /\ app_uri = UriA =>
               /\ ~ten_engine_check_remote_is_duplicated(UriB)
               /\ Retained(last.remote)
               /\ hop_result[last.hop] = <<>>
        /\ app_uri = UriC =>
               /\ ten_engine_check_remote_is_duplicated(UriB)
               /\ Dropped(last.remote)
               /\ ~InWeak(last.remote)
               /\ AnsweredOk(last.hop)

\* Scenario S4 happened: engine "C", inbound "B" first, the outbound dropped.
C9_Witness ==
    /\ InboundBThenCreated /\ app_uri = UriC
    /\ Dropped(last.remote) /\ AnsweredOk(last.hop)

\* Scenario S3 happened: engine "A", inbound "B" first, the outbound kept.
C9_WitnessS3 ==
    InboundBThenCreated /\ app_uri = UriA /\ Retained(last.remote)

\* C10: connect_to_graph_remote returns what the addon registry answered.
\* When it returns true, has_uncompleted_async_task is true and one creation is
\* pending, whose callback is invoked exactly once: it has run once by the time
\* the engine is finalized.  When it returns false, the call leaves
\* has_uncompleted_async_task, both tables and the pending creations as they
\* were, and the callback of that request never runs.
C10_CreateRemoteAsync ==
    /\ [](\A d \in Hops :
              /\ cb_count[d] <= 1
              /\ dialed[d] = "no" => cb_count[d] = 0 /\ d \notin pending_creates
              /\ dialed[d] = "refused" =>
                     cb_count[d] = 0 /\ d \notin pending_creates
              /\ dialed[d] = "accepted" =>
                     \/ d \in pending_creates /\ cb_count[d] = 0
                     \/ d \notin pending_creates /\ cb_count[d] = 1
              /\ (dialed[d] = "accepted" /\ finalized) => cb_count[d] = 1)
    /\ [](last.op = "connect_to_graph_remote" =>
              /\ last.ret = (dialed[last.hop] = "accepted")
              /\ last.ret => has_uncompleted_async_task
                             /\ last.hop \in pending_creates)
    /\ [][last'.op = "connect_to_graph_remote" =>
              IF last'.ret
              THEN /\ has_uncompleted_async_task'
                   /\ pending_creates' = pending_creates \cup {last'.hop}
                   /\ UNCHANGED <<remotes, weak_remotes, rem, cb_count>>
              ELSE UNCHANGED <<has_uncompleted_async_task, remotes, weak_remotes,
                               rem, pending_creates, cb_count>>]_vars

\* The calls of that name the most recent handler made.
CallsOf(name) == {i \in 1..Len(last.calls) : last.calls[i].call = name}

\* C11: no leak on the create-then-close race.  When the engine is closing at
\* the time the creation callback of an accepted request runs, the callback of
\* the caller is invoked exactly once, with no remote; no remote is built and
\* neither table changes; and the new protocol is closed after
\* ten_engine_on_protocol_closed was registered as its closed handler.
C11_NoLeakOnCreateThenClose ==
    /\ [](last.op = "on_protocol_created" /\ is_closing /\ panic = "none" =>
              /\ last.remote = NULL
              /\ Cardinality(CallsOf("cb")) = 1
              /\ \A i \in CallsOf("cb") : last.calls[i].remote = NULL
              /\ cb_count[last.hop] = 1
              /\ RemoteOf(last.hop) = NULL
              /\ CallsOf("ten_remote_connect_to") = {}
              /\ last.hop \in closing_protocols
              /\ \E i \in CallsOf("ten_protocol_set_on_closed") :
                     /\ last.calls[i].fmt = "ten_engine_on_protocol_closed"
                     /\ \E j \in CallsOf("ten_protocol_close") : i < j)
    /\ [][last'.op = "on_protocol_created" /\ is_closing /\ panic' = "none" =>
              UNCHANGED <<remotes, weak_remotes, rem>>]_vars

\* The engine started to close while a creation was in flight, and the
\* creation callback then ran without building a remote.
C11_Witness ==
    /\ last.op = "on_protocol_created" /\ is_closing
    /\ last.hop \in closing_protocols /\ cb_count[last.hop] = 1
    /\ last.hop \notin pending_creates

\* Nothing blocks the closing of the engine: both tables are empty and no
\* asynchronous task is uncompleted.
GateClear ==
    remotes = {} /\ weak_remotes = <<>> /\ ~has_uncompleted_async_task

\* C12: close gating.  Once the engine is closing, it is finalized exactly when
\* both tables are empty and has_uncompleted_async_task is false: never before,
\* and at once when the last of the three clears, because every handler that
\* takes a remote off a table or clears the flag while the engine is closing
\* calls ten_engine_on_close.
C12_CloseGating ==
    /\ [](finalized => is_closing /\ GateClear)
    /\ [](is_closing /\ panic = "none" /\ GateClear => finalized)
    /\ [][(is_closing /\ panic' = "none"
            /\ \/ remotes \ remotes' # {}
               \/ Range(weak_remotes) \ Range(weak_remotes') # {}
               \/ has_uncompleted_async_task /\ ~has_uncompleted_async_task') =>
              \E i \in 1..Len(last'.calls) :
                  last'.calls[i].call = "ten_engine_on_close"]_vars

\* A creation ended while the engine was closing, and the closed callback of
\* the last remote then opened the gate.
C12_Witness ==
    /\ finalized /\ last.op = "on_remote_closed"
    /\ \E d \in Hops : cb_count[d] = 1 /\ dialed[d] = "accepted"
                       /\ RemoteOf(d) = NULL

\* C13: the shutdown gate covers every asynchronous task in flight.  The engine
\* is never finalized while a protocol creation has not yet delivered its
\* creation callback, nor while a protocol that was closed because the engine
\* is closing has not yet delivered its closed callback.
C13_GateCoversEveryTask ==
    finalized => pending_creates = {} /\ closing_protocols = {}

\* C14: ten_engine_on_remote_closed calls ten_engine_close_async exactly when
\* the engine is not closing, the closed remote is the entry of the strong
\* table (not a weak remote, not a detached one) and long_running_mode is
\* false; the remote has then been taken off the strong table.
C14_CloseAsyncIffStrongAndNotLongRunning ==
    [][last'.op = "on_remote_closed" /\ panic' = "none" =>
          LET r == last'.remote
              scheduled == \E i \in 1..Len(last'.calls) :
                               last'.calls[i].call = "ten_engine_close_async"
          IN /\ scheduled = (/\ ~is_closing
                             /\ r \in remotes
                             /\ r \notin Range(weak_remotes)
                             /\ ~long_running_mode)
             /\ scheduled => r \notin remotes' /\ close_async_scheduled'
             /\ ~scheduled => close_async_scheduled' = close_async_scheduled]_vars

\* Scenario S6: a strong remote closed on an engine that is not long running,
\* and ten_engine_close_async was called.
C14_Witness ==
    /\ last.op = "on_remote_closed" /\ ~long_running_mode /\ ~is_closing
    /\ CallsOf("ten_engine_close_async") # {}
    /\ close_async_scheduled /\ rem[last.remote].life = "destroyed"

\* A weak remote closed on an engine that is not long running and not closing.
C14_WitnessWeak ==
    /\ last.op = "on_remote_closed" /\ last.ret /\ ~long_running_mode
    /\ ~is_closing /\ CallsOf("ten_engine_close_async") = {}

\* The result a failed dial to u gives to the per-hop start_graph of u.
ConnectFailed(u) == CmdResult("ERROR", "Failed to connect to %s", u)

\* C15: connect error (scenario S5).  When the dial of a weak remote to a peer
\* fails, the per-hop start_graph is answered ERROR "Failed to connect to
\* <peer>" and the remote is closed, the tables and the scheduling of
\* ten_engine_close_async being left alone; and when the closed callback of
\* that remote runs, the remote leaves the weak list and is destroyed, nothing
\* is added to the strong table and ten_engine_close_async is not called.
C15_ConnectError ==
    /\ [](last.op = "on_connect_error" =>
              /\ hop_result[last.hop] = <<ConnectFailed(last.uri)>>
              /\ Cardinality(CallsOf("return_error_for_cmd_start_graph")) = 1
              /\ Cardinality(CallsOf("ten_remote_close")) = 1
              /\ rem[last.remote].life = "alive"
              /\ rem[last.remote].closing
              /\ ~rem[last.remote].cmd
              /\ last.remote \in Range(weak_remotes)
              /\ last.remote \notin remotes)
    /\ [][last'.op = "on_connect_error" =>
              UNCHANGED <<remotes, weak_remotes, close_async_scheduled,
                          finalized>>]_vars
    /\ [][(/\ last'.op = "on_remote_closed" /\ panic' = "none"
            /\ rem[last'.remote].dial = "failed") =>
              LET r == last'.remote
              IN /\ r \in Range(weak_remotes)
                 /\ r \notin Range(weak_remotes')
                 /\ rem'[r].life = "destroyed"
                 /\ remotes' = remotes
                 /\ close_async_scheduled' = close_async_scheduled
                 /\ \A i \in 1..Len(last'.calls) :
                        last'.calls[i].call # "ten_engine_close_async"]_vars

\* The dial to a peer failed on an engine that is not closing, and the closed
\* callback of the remote has run.
C15_Witness ==
    /\ last.op = "on_remote_closed" /\ last.ret /\ ~is_closing
    /\ ~long_running_mode
    /\ hop_result[last.hop] = <<ConnectFailed(last.uri)>>
    /\ rem[last.remote].life = "destroyed"
    /\ ~close_async_scheduled /\ ~finalized

\* The type of the message the most recent handler received.
ReceivedType == last.calls[1].fmt

\* The ERROR results the most recent handler sent over the connection of r.
ErrorReplies(r) ==
    {i \in CallsOf("ten_connection_send_msg") :
        /\ last.calls[i].remote = r
        /\ last.calls[i].status = "ERROR"
        /\ last.calls[i].fmt = "Receive a start_graph cmd after graph is built."}

\* C16: start_graph after the graph is built.  A CMD_START_GRAPH received from
\* a remote is answered with one ERROR result of detail "Receive a start_graph
\* cmd after graph is built." on the connection of that remote and is not
\* dispatched; a message of any other type is dispatched and gets no reply; in
\* both cases the tables, the remotes, is_closing and
\* has_uncompleted_async_task are unchanged.
C16_PostBuildStartGraph ==
    /\ [](last.op = "receive_msg_from_remote" =>
              IF ReceivedType = "CMD_START_GRAPH"
              THEN /\ Cardinality(ErrorReplies(last.remote)) = 1
                   /\ CallsOf("ten_connection_send_msg") = ErrorReplies(last.remote)
                   /\ CallsOf("ten_engine_dispatch_msg") = {}
              ELSE /\ Cardinality(CallsOf("ten_engine_dispatch_msg")) = 1
                   /\ CallsOf("ten_connection_send_msg") = {})
    /\ [][last'.op = "receive_msg_from_remote" =>
              UNCHANGED <<remotes, weak_remotes, rem, is_closing,
                          has_uncompleted_async_task, hop_result,
                          original_result>>]_vars

\* A start_graph arrived over the connection of a strong remote and was
\* answered with the error.
C16_Witness ==
    /\ last.op = "receive_msg_from_remote"
    /\ ReceivedType = "CMD_START_GRAPH"
    /\ last.remote \in remotes
    /\ ErrorReplies(last.remote) # {}

\* A message of another type arrived and was dispatched.
C16_WitnessDispatched ==
    /\ last.op = "receive_msg_from_remote"
    /\ ReceivedType = "DATA"
    /\ CallsOf("ten_engine_dispatch_msg") # {}

\* The per-hop start_graph d has its outcome: one result was given to it, or
\* it was sent to the peer, whose result is the outcome.
Settled(d) == Len(hop_result[d]) = 1 \/ hop_sent[d]

\* The dial of d is in progress: its creation is in flight, or its remote is
\* dialing.
InFlight(d) ==
    \/ d \in pending_creates
    \/ \E r \in DOMAIN rem :
           rem[r].protocol = d /\ rem[r].life = "alive" /\ rem[r].dial = "dialing"

\* C17: exactly one result per hop.  Every per-hop start_graph handed to a
\* ten_engine_connect_to_graph_remote that returned true is given exactly one
\* result over the whole run: never two, and one by the time the dial is over
\* or the engine is finalized.
C17_ExactlyOneResultPerHop ==
    \A d \in Hops :
        dialed[d] = "accepted" =>
            /\ Len(hop_result[d]) <= 1
            /\ (finalized \/ ~InFlight(d)) => Settled(d)

\* Every per-hop command of the graph was handed over, and no hop waits for
\* the result of its peer.
HopsDone ==
    /\ \A d \in Hops : dialed[d] # "no"
    /\ \A d \in Hops : hop_sent[d] => hop_result[d] # <<>>

\* The original start_graph is never answered twice, it is answered exactly
\* when every hop of the graph has its result, and the answer is OK when the
\* graph has no hop.
C18_AnsweredAfterAllHops ==
    /\ Len(original_result) <= 1
    /\ (original_result # <<>>) = (\A d \in Hops : hop_result[d] # <<>>)
    /\ graph = <<>> => original_result = <<CmdResult("OK", "", NoUri)>>

\* C18: the original start_graph is answered exactly once, and only after the
\* result of every hop is in, even when hops fail or are short-circuited as
\* duplicates; it is answered OK when the graph has no hop.  Exactly once: it
\* has its answer by the time the engine is finalized, unless a hop still
\* waits for its peer.
C18_OriginalAnsweredExactlyOnce ==
    /\ C18_AnsweredAfterAllHops
    /\ finalized /\ HopsDone => Len(original_result) = 1

\* C19: cancellation of hops in flight.  When the closed callback runs for a
\* weak remote that still carries its per-hop start_graph (the engine closes,
\* or the connection closes before the dial ends), the hop has its one
\* result, ERROR "Failed to connect to <peer>", by the end of the callback.
C19_CancelledHopGetsError ==
    [][(/\ last'.op = "on_remote_closed" /\ panic' = "none"
         /\ last'.remote \in Range(weak_remotes)
         /\ rem[last'.remote].cmd) =>
           hop_result'[last'.hop] = <<ConnectFailed(last'.uri)>>]_vars

\* C21: ten_engine_link_orphan_connection_to_remote, called with no strong
\* remote of the uri, creates exactly one remote, which owns the connection,
\* puts it into the strong table under the uri, takes the connection off the
\* orphan connections and registers the remote as the closed handler of the
\* connection; the weak list and every other remote are left as they were; and
\* the assertion on its precondition never fails.
C21_LinkOrphan ==
    /\ [](panic # "link_orphan_connection_to_remote")
    /\ [][last'.op = "link_orphan" =>
              LET r == last'.remote
                  uri == last'.uri
              IN /\ \A q \in remotes : rem[q].uri # uri
                 /\ rem[r].life = "none"
                 /\ rem'[r] = [uri |-> uri, life |-> "alive",
                               closing |-> FALSE, closed |-> FALSE,
                               dial |-> "none", cmd |-> FALSE,
                               origin |-> "in", protocol |-> NULL]
                 /\ \A q \in DOMAIN rem : q # r => rem'[q] = rem[q]
                 /\ remotes' = remotes \cup {r}
                 /\ r \notin remotes
                 /\ weak_remotes' = weak_remotes
                 /\ last'.calls =
                        <<Call("ten_engine_del_orphan_connection", r, "", "",
                               uri),
                          Call("ten_connection_set_on_closed", r, "",
                               "ten_remote_on_connection_closed", uri)>>
                 /\ panic' = "none"]_vars

\* C24, as stated: has_uncompleted_async_task is false whenever
\* ten_engine_on_protocol_created has returned, in the closing branch too.
C24_Original_FlagClearedFirst ==
    (last.op = "on_protocol_created" /\ panic = "none") =>
        ~has_uncompleted_async_task

\* C24, as the code has it: ten_engine_on_protocol_created tests is_closing
\* first.  In the closing branch it returns with has_uncompleted_async_task as
\* it found it (it is ten_engine_on_protocol_closed that clears it); in the
\* normal branch it clears the flag, which is false when it returns.
C24_FlagClearedInNormalBranchOnly ==
    [][(last'.op = "on_protocol_created" /\ panic' = "none") =>
          IF is_closing
          THEN has_uncompleted_async_task' = has_uncompleted_async_task
          ELSE ~has_uncompleted_async_task']_vars

\* The creation callback ran on a closing engine and returned with the flag
\* still set, the new protocol being on its way to closed.
C24_Witness ==
    /\ last.op = "on_protocol_created" /\ panic = "none"
    /\ is_closing /\ last.remote = NULL
    /\ has_uncompleted_async_task
    /\ last.hop \in closing_protocols

\* The creation callback ran on an engine that was not closing.
C24_WitnessNormal ==
    /\ last.op = "on_protocol_created" /\ panic = "none"
    /\ ~is_closing /\ last.remote # NULL
    /\ ~has_uncompleted_async_task

\* C25, as stated, for a protocol of the normal path: once the remote built
\* on the protocol has been closed and destroyed, ten_engine_on_protocol_closed
\* has released the reference of the engine.
C25_Original_ReleasedInOnProtocolClosed ==
    \A d \in Hops :
        (cb_count[d] = 1 /\ RemoteOf(d) # NULL
                         /\ rem[RemoteOf(d)].life = "destroyed") =>
            protocol_ref[d] = 0

\* C25, as the code has it: a protocol has one reference from its creation;
\* ten_engine_on_protocol_closed is the only handler that releases one, it
\* runs for a protocol closed in the is_closing branch of the creation
\* callback only and at most once for it, on a closing engine, and it clears
\* has_uncompleted_async_task in the same call; the count never goes below
\* zero.  The protocol a remote was built on is never given to
\* ten_engine_on_protocol_closed: its count stays with the connection.
C25_RefDiscipline ==
    /\ [](\A d \in Hops :
              /\ protocol_ref[d] \in {0, 1}
              /\ (cb_count[d] = 0) => (protocol_ref[d] = 0)
              /\ (d \in closing_protocols) => (protocol_ref[d] = 1)
              /\ (RemoteOf(d) # NULL) =>
                     (protocol_ref[d] = 1 /\ d \notin closing_protocols))
    /\ [][\A d \in Hops :
              /\ (protocol_ref'[d] < protocol_ref[d]) =>
                     /\ last'.op = "on_protocol_closed" /\ last'.hop = d
                     /\ is_closing
                     /\ d \in closing_protocols /\ d \notin closing_protocols'
                     /\ RemoteOf(d) = NULL
                     /\ protocol_ref[d] = 1 /\ protocol_ref'[d] = 0
                     /\ ~has_uncompleted_async_task'
              /\ (protocol_ref'[d] > protocol_ref[d]) =>
                     /\ last'.op = "on_protocol_created" /\ last'.hop = d
                     /\ cb_count[d] = 0 /\ cb_count'[d] = 1
              /\ (last'.op = "on_protocol_closed" /\ last'.hop = d
                                                  /\ panic' = "none") =>
                     protocol_ref'[d] = protocol_ref[d] - 1]_vars

\* The protocol of a dial was closed in the is_closing branch and its closed
\* callback has released the reference.
C25_Witness ==
    /\ last.op = "on_protocol_closed" /\ panic = "none"
    /\ cb_count[last.hop] = 1
    /\ protocol_ref[last.hop] = 0

\* The remote built on the protocol of a dial was closed and destroyed, and
\* ten_engine_on_protocol_closed has not run for that protocol.
C25_WitnessNormalPath ==
    /\ last.op = "on_remote_closed"
    /\ last.hop # NULL
    /\ last.remote = RemoteOf(last.hop)
    /\ rem[last.remote].life = "destroyed"
    /\ protocol_ref[last.hop] = 1

\* C26, as stated: promotion at on_connected.  When the dial of a weak remote
\* succeeds the duplicate check is run; a duplicate is destroyed or closed and
\* its per-hop start_graph answered OK; a remote that is no duplicate leaves
\* the handler in the strong table and off the weak list.
C26_Original_PromotionAtConnected ==
    [][(last'.op = "on_graph_remote_connected" /\ panic' = "none") =>
          LET r == last'.remote
              uri == last'.uri
              duplicate == Exists(uri) /\ LexLeq(uri, app_uri)
          IN IF duplicate
             THEN /\ rem'[r].life = "destroyed" \/ rem'[r].closing
                  /\ hop_result'[last'.hop] =
                         Append(hop_result[last'.hop], CmdResult("OK", "", NoUri))
             ELSE r \in remotes' /\ r \notin Range(weak_remotes')]_vars

\* C26, as the code has it: ten_engine_on_graph_remote_connected runs no
\* duplicate check and promotes nothing.  It sends the stored per-hop
\* start_graph over the protocol of the remote and clears it; the remote is
\* on the weak list before and after, it is not closed, and both tables and
\* the results of the hops are left as they were.  The promotion is
\* ten_engine_upgrade_weak_remote_to_normal_remote alone: it takes the remote
\* off the weak list and puts it into the strong table, whatever the table
\* holds, and changes no remote.
C26_ConnectedSendsStoredCmd ==
    /\ [][last'.op = "on_graph_remote_connected" =>
              LET r == last'.remote
                  uri == last'.uri
              IN /\ rem[r].cmd /\ ~rem'[r].cmd
                 /\ rem'[r].uri = uri /\ rem'[r].life = "alive"
                 /\ ~rem'[r].closing
                 /\ \A q \in DOMAIN rem : q # r => rem'[q] = rem[q]
                 /\ last'.calls =
                        <<Call("ten_protocol_send_msg", r, "", "", uri)>>
                 /\ hop_sent'[last'.hop]
                 /\ r \in Range(weak_remotes) /\ r \notin remotes
                 /\ UNCHANGED <<remotes, weak_remotes, hop_result,
                                original_result, panic>>]_vars
    /\ [][last'.op = "upgrade_weak_remote_to_normal_remote" =>
              LET r == last'.remote
              IN /\ r \in Range(weak_remotes) /\ r \notin remotes
                 /\ r \notin Range(weak_remotes')
                 /\ Range(weak_remotes') = Range(weak_remotes) \ {r}
                 /\ remotes' = remotes \cup {r}
                 /\ UNCHANGED <<rem, hop_result, hop_sent, panic>>]_vars

\* The dial of a weak remote succeeded while a strong remote held its uri
\* and the uri was not larger than the app's: the command was sent, and the
\* remote is still on the weak list, neither closed nor answered.
C26_Witness ==
    /\ last.op = "on_graph_remote_connected"
    /\ LexLeq(last.uri, app_uri)
    /\ \E q \in remotes : rem[q].uri = last.uri
    /\ InWeak(last.remote) /\ ~rem[last.remote].closing
    /\ hop_sent[last.hop] /\ hop_result[last.hop] = <<>>

\* A connected weak remote was promoted beside a strong remote of its uri.
C26_WitnessPromoted ==
    /\ last.op = "upgrade_weak_remote_to_normal_remote"
    /\ InStrong(last.remote) /\ ~InWeak(last.remote)
    /\ StrongCount(last.uri) = 2

\* C27: the duplicate short-circuit of the creation callback.  When
\* ten_engine_check_remote_is_duplicated is true for a remote that was just
\* created, the remote is closed, is put into neither table and is not
\* dialed, the per-hop command is answered OK, and both tables and every
\* other remote are left as they were; when it is false the remote is pushed
\* to the back of the weak list and its dial is then started.  A remote that
\* was closed as a duplicate never enters a table, and a remote is on the
\* weak list for as long as it is dialing.
C27_DuplicateShortCircuit ==
    /\ [](\A r \in DOMAIN rem :
              /\ (rem[r].origin = "out" /\ rem[r].dial = "none") =>
                     (r \notin remotes /\ r \notin Range(weak_remotes)
                                      /\ rem[r].closing)
              /\ (rem[r].dial = "dialing") => r \in Range(weak_remotes))
    /\ [][(last'.op = "on_protocol_created" /\ last'.remote # NULL
                                           /\ panic' = "none") =>
              LET r == last'.remote
                  uri == last'.uri
                  duplicate == Exists(uri) /\ LexLeq(uri, app_uri)
              IN /\ rem[r].life = "none"
                 /\ \A q \in DOMAIN rem : q # r => rem'[q] = rem[q]
                 /\ remotes' = remotes
                 /\ IF duplicate
                    THEN /\ rem'[r] = [uri |-> uri, life |-> "alive",
                                       closing |-> TRUE, closed |-> FALSE,
                                       dial |-> "none", cmd |-> FALSE,
                                       origin |-> "out",
                                       protocol |-> last'.hop]
                         /\ weak_remotes' = weak_remotes
                         /\ hop_result'[last'.hop] =
                                Append(hop_result[last'.hop],
                                       CmdResult("OK", "", NoUri))
                         /\ CallsOf("ten_remote_connect_to")' = {}
                         /\ CallsOf("ten_remote_close")' # {}
                    ELSE /\ rem'[r] = [uri |-> uri, life |-> "alive",
                                       closing |-> FALSE, closed |-> FALSE,
                                       dial |-> "dialing", cmd |-> TRUE,
                                       origin |-> "out",
                                       protocol |-> last'.hop]
                         /\ weak_remotes' = Append(weak_remotes, r)
                         /\ hop_result' = hop_result
                         /\ CallsOf("ten_remote_close")' = {}
                         /\ CallsOf("ten_remote_connect_to")' # {}]_vars

\* A remote was created beside a remote of its uri that the table already
\* held, was found a duplicate and was closed; the other remote is still in
\* the strong table.
C27_Witness ==
    /\ Created /\ last.ret
    /\ Dropped(last.remote)
    /\ \E q \in remotes : rem[q].uri = last.uri /\ q # last.remote
    /\ hop_result[last.hop] = <<CmdResult("OK", "", NoUri)>>

\* A remote was created beside a strong remote of its uri, was found no
\* duplicate and is on the weak list, dialing.
C27_WitnessKept ==
    /\ Created /\ ~last.ret
    /\ Retained(last.remote)
    /\ \E q \in remotes : rem[q].uri = last.uri

\* C28: the closed callback of a remote on a closing engine.  When the remote
\* was on the weak list or was the entry of the strong table,
\* ten_engine_on_remote_closed calls ten_engine_on_close exactly once; when it
\* was in neither table (no remote, or another remote, holds its uri in the
\* strong table) it calls neither ten_engine_on_close nor
\* ten_engine_close_async, and the engine is no nearer its end.  It never
\* calls ten_engine_close_async on a closing engine.
C28_OnCloseWhenClosing ==
    [][(last'.op = "on_remote_closed" /\ panic' = "none" /\ is_closing) =>
          LET r == last'.remote
          IN /\ CallsOf("ten_engine_close_async")' = {}
             /\ close_async_scheduled' = close_async_scheduled
             /\ IF r \in Range(weak_remotes) \/ r \in remotes
                THEN Cardinality(CallsOf("ten_engine_on_close")') = 1
                ELSE /\ CallsOf("ten_engine_on_close")' = {}
                     /\ finalized' = finalized
                     /\ remotes' = remotes
                     /\ weak_remotes' = weak_remotes]_vars

\* On a closing engine the closed callback ran for a remote that was in
\* neither table while another remote held its uri in the strong table.
C28_Witness ==
    /\ last.op = "on_remote_closed" /\ is_closing /\ panic = "none"
    /\ CallsOf("ten_engine_on_close") = {}
    /\ \E q \in remotes : q # last.remote /\ rem[q].uri = last.uri

\* On a closing engine the closed callback ran for the entry of the strong
\* table and called ten_engine_on_close.
C28_WitnessStrong ==
    /\ last.op = "on_remote_closed" /\ is_closing /\ panic = "none"
    /\ ~last.ret
    /\ Cardinality(CallsOf("ten_engine_on_close")) = 1

\* C29: the closed callback of a remote that is not on the weak list, while
\* another remote holds its uri in the strong table, leaves that other entry,
\* the weak list and every other remote as they were; when the closing remote
\* is no entry itself the strong table is unchanged and the closing remote
\* is destroyed, nothing else; and an entry leaves the strong table only in
\* the closed callback of the very remote that is the entry.
C29_OtherStrongEntryUntouched ==
    /\ [][(/\ last'.op = "on_remote_closed" /\ panic' = "none"
            /\ last'.remote \notin Range(weak_remotes)
            /\ \E q \in remotes : q # last'.remote /\ rem[q].uri = last'.uri) =>
              LET r == last'.remote
              IN /\ \A q \in remotes \ {r} : q \in remotes'
                 /\ remotes' \subseteq remotes
                 /\ weak_remotes' = weak_remotes
                 /\ \A q \in DOMAIN rem : q # r => rem'[q] = rem[q]
                 /\ r \notin remotes =>
                        /\ remotes' = remotes
                        /\ rem'[r].life = "destroyed"
                        /\ last'.calls = <<Call("ten_remote_destroy", r, "", "",
                                                last'.uri)>>]_vars
    /\ [][\A q \in remotes \ remotes' :
              /\ last'.op = "on_remote_closed"
              /\ last'.remote = q
              /\ q \notin Range(weak_remotes)
              /\ rem'[q].life = "destroyed" \/ rem'[q].closed]_vars

\* The closed callback ran for a remote in neither table while another remote
\* of its uri was, and still is, the entry of the strong table.
C29_Witness ==
    /\ last.op = "on_remote_closed" /\ panic = "none"
    /\ rem[last.remote].life = "destroyed"
    /\ \E q \in remotes :
           /\ q # last.remote /\ rem[q].uri = last.uri
           /\ rem[q].life = "alive"

\* C30, as stated: when the closed callback of a remote schedules
\* ten_engine_close_async, no strong remote remains in the strong table.
C30_Original_OnlyLastStrongSchedules ==
    (/\ last.op = "on_remote_closed" /\ panic = "none"
     /\ CallsOf("ten_engine_close_async") # {}) =>
        remotes = {}

\* C30, as the code has it: with long_running_mode false and the engine not
\* closing, the closed callback of any remote that is the entry of the strong
\* table schedules ten_engine_close_async, whether or not other remotes remain
\* in the strong table; and nothing else schedules it.
C30_AnyStrongCloseSchedules ==
    /\ [][(/\ last'.op = "on_remote_closed" /\ panic' = "none"
            /\ ~is_closing /\ ~long_running_mode
            /\ last'.remote \in remotes
            /\ last'.remote \notin Range(weak_remotes)) =>
              /\ Cardinality(CallsOf("ten_engine_close_async")') = 1
              /\ close_async_scheduled'
              /\ remotes' = remotes \ {last'.remote}]_vars
    /\ [][(close_async_scheduled' /\ ~close_async_scheduled) =>
              /\ last'.op = "on_remote_closed"
              /\ last'.remote \in remotes
              /\ ~is_closing /\ ~long_running_mode]_vars

\* The closed callback of one strong remote scheduled ten_engine_close_async
\* while another strong remote was alive in the strong table.
C30_Witness ==
    /\ last.op = "on_remote_closed" /\ panic = "none"
    /\ ~long_running_mode /\ ~is_closing
    /\ CallsOf("ten_engine_close_async") # {}
    /\ close_async_scheduled
    /\ \E q \in remotes : rem[q].life = "alive" /\ ~rem[q].closing

\* C23: the test command of the client gets exactly one OK result with the
\* detail {"id": 1, "name": "a"}, whichever comes first.  A command that
\* arrives after the stop_graph result is answered in on_cmd; one that arrives
\* before is stored and answered by the result handler of stop_graph; it is
\* never answered twice; stop_graph is sent only once the start_graph result
\* has come; and a command that was sent is answered in the end.
C23_TestCmdAnsweredOnce ==
    /\ [](/\ Len(test_results) <= 1
          /\ \A i \in 1..Len(test_results) :
                 test_results[i] = CmdResult("OK", DetailTest, NoUri)
          /\ test_checked # "fail"
          /\ (stop_graph_cmd # "none") => (start_graph_cmd = "done")
          /\ start_graph_cmd_is_done = (stop_graph_cmd = "done")
          /\ (client_test_cmd # "delivered") => (test_results = <<>> /\ ~test_cmd)
          /\ (client_test_cmd = "delivered" /\ ~start_graph_cmd_is_done) =>
                 (test_cmd /\ test_results = <<>>)
          /\ (client_test_cmd = "delivered" /\ start_graph_cmd_is_done) =>
                 Len(test_results) = 1)
    /\ [][(client_test_cmd = "sent" /\ client_test_cmd' = "delivered") =>
              IF start_graph_cmd_is_done
              THEN Len(test_results') = 1 /\ ~test_cmd'
              ELSE test_results' = <<>> /\ test_cmd']_vars
    /\ [][(stop_graph_cmd = "sent" /\ stop_graph_cmd' = "done") =>
              (Len(test_results') = 1) = test_cmd]_vars
    /\ (client_test_cmd = "sent") ~> (test_checked = "pass")

\* The test command arrived before the stop_graph result, was stored, and
\* the client got its result.
C23_Witness ==
    /\ test_cmd
    /\ start_graph_cmd_is_done
    /\ Len(test_results) = 1
    /\ test_checked = "pass"

\* The test command arrived after the stop_graph result and was answered by
\* on_cmd, and the client got its result.
C23_WitnessAfter ==
    /\ ~test_cmd
    /\ client_test_cmd = "delivered"
    /\ Len(test_results) = 1
    /\ test_checked = "pass"

\* C31: add_strong never makes a second strong entry of a uri: the strong
\* table holds at most one remote per uri in every reachable state, and a
\* remote enters the table only under a uri that has no entry.
C31_AddStrongFailsOnExistingKey ==
    /\ [](\A q1, q2 \in remotes : rem[q1].uri = rem[q2].uri => q1 = q2)
    /\ [][\A r \in remotes' \ remotes :
              \A q \in remotes : rem[q].uri # rem'[r].uri]_vars

\* C33: ten_engine_on_protocol_closed runs only while the engine is closing.
\* A protocol gets the closed callback registered only in the is_closing
\* branch of ten_engine_on_protocol_created, is_closing is never cleared once
\* set, and so the assertion self->is_closing holds at every invocation.
C33_ProtocolClosedOnlyWhileClosing ==
    /\ [](panic # "on_protocol_closed")
    /\ [](closing_protocols # {} => is_closing)
    /\ [][is_closing => is_closing']_vars
    /\ [][(closing_protocols' \ closing_protocols # {}) =>
              /\ is_closing
              /\ last'.op = "on_protocol_created"
              /\ last'.remote = NULL
              /\ closing_protocols' \ closing_protocols = {last'.hop}]_vars
    /\ [][(closing_protocols \ closing_protocols' # {}) =>
              /\ is_closing /\ is_closing'
              /\ last'.op = "on_protocol_closed"
              /\ closing_protocols \ closing_protocols' = {last'.hop}]_vars

\* The closed callback of a protocol ran, on a closing engine, after the
\* creation callback had closed the protocol.
C33_Witness ==
    /\ last.op = "on_protocol_closed" /\ panic = "none"
    /\ is_closing
    /\ last.hop \notin closing_protocols
    /\ cb_count[last.hop] = 1

\* C34: every remote is destroyed exactly once and no table refers to it
\* afterwards: a remote that is destroyed is in neither weak_remotes nor the
\* strong table, and no step touches it again.
C34_DestroyedOnce ==
    /\ [](\A r \in DOMAIN rem :
              rem[r].life = "destroyed" =>
                  r \notin remotes /\ r \notin Range(weak_remotes))
    /\ [][\A r \in DOMAIN rem :
              rem[r].life = "destroyed" => rem'[r] = rem[r]]_vars

\* C35: shutdown completes. Once the engine is closing, and every pending
\* callback is delivered in the end, the engine reaches a state where
\* ten_engine_on_close has found both tables empty and the flag false.  A
\* process that a failed TEN_ASSERT has stopped has no shutdown left to
\* complete and is not held against the claim.
C35_ShutdownCompletes ==
    is_closing ~> (\/ /\ finalized
                      /\ remotes = {} /\ weak_remotes = <<>>
                      /\ ~has_uncompleted_async_task
                   \/ panic # "none")

\* C36: no stuck gate. Whenever has_uncompleted_async_task is true, a protocol
\* creation asked for by ten_engine_create_remote_async has not delivered
\* ten_engine_on_protocol_created yet, or a protocol closed in the is_closing
\* branch has not delivered ten_engine_on_protocol_closed yet.
C36_FlagImpliesInFlight ==
    has_uncompleted_async_task =>
        (pending_creates # {} \/ closing_protocols # {})

\* The creation callback ran on a closing engine and left the flag set: what
\* is in flight is the closed callback of the protocol it closed.
C36_Witness ==
    /\ has_uncompleted_async_task
    /\ pending_creates = {}
    /\ closing_protocols # {}
    /\ last.op = "on_protocol_created"

\* A request the registry took set the flag: its creation is in flight.
C36_WitnessCreation ==
    /\ has_uncompleted_async_task
    /\ pending_creates # {}
    /\ closing_protocols = {}
    /\ last.op = "connect_to_graph_remote" /\ last.ret

\* The verdict of ten_engine_check_remote_is_duplicated in the app of the peer
\* u, which holds a remote of this app, on its own outbound channel to this
\* app.
VerdictOfPeer(u) ==
    LET held == CHOOSE r \in 1..MaxRemotes : r # NULL
    IN channel_is_duplicated(held, app_uri, u)

C38_NoDetachedRemoteAtFinalization ==
    finalized =>
        \A r \in DOMAIN rem :
            ~(/\ rem[r].life = "alive" /\ rem[r].closing /\ ~rem[r].closed
              /\ r \notin remotes /\ r \notin Range(weak_remotes))

====
